---- MODULE Spec2Model ----
(***************************************************************************)
(* Chain state, UTXO set, block validation, block acceptance, peer block   *)
(* sync and chain reorganisation of the learn-bitcoin node.                *)
(*                                                                         *)
(* Conventions                                                             *)
(*  - Amounts are whole coins (1 = 100,000,000 satoshi): TLC's integers   *)
(*    are 32 bits wide and 50*10^8 does not fit.  For whole-coin           *)
(*    amounts v <= (50*10^8 >> k) + f holds exactly when                   *)
(*    v <= (50 \div 2^k) + f in coins.                                     *)
(*  - A hash is a name.  Double-SHA-256 is modelled as a collision-free    *)
(*    digest: HashTransaction / HashBlockHeader look the content up in a   *)
(*    catalogue in which distinct contents have distinct names.            *)
(*  - A uint32 in the upper half of its range is written as its value     *)
(*    less 2^32: 0xFFFFFFFF (the coinbase output index, the final         *)
(*    sequence number) is -1, 0xFFFFFFFE is -2.  U32Less compares two     *)
(*    such numbers as the unsigned values they stand for.                 *)
(***************************************************************************)
EXTENDS Integers, Sequences, FiniteSets, TLC

(***************************************************************************)
(* Bounds                                                                  *)
(***************************************************************************)
\* longest list of blocks handed to HandleReorg
MaxNewBlocks == 2
\* highest block height handed to the UTXO set directly
MaxHeight == 1
\* number of calls made on the node in one run
MaxCalls == 3
\* the mempool's byte budget (Mempool.maxSize)
maxSize == 130
\* the mempool's age limit in seconds (Mempool.maxTxAge)
maxTxAge == 1
\* the clock stops after this many seconds
MaxNow == 2

(***************************************************************************)
(* Program constants                                                       *)
(***************************************************************************)
MaxBlockSize == 1000000
MaxMoney == 21000000
CoinbaseMaturity == 100
InitialBlockReward == 50
SubsidyHalvingInterval == 210000
MaxTxSize == 100000
CoinbaseIndex == -1
\* TxInput.Sequence of a final input (0xFFFFFFFF), the BIP 125 limit
\* (0xFFFFFFFE) and a sequence number that signals replaceability (0xFFFFFFFD)
SequenceFinal == -1
SequenceRBFLimit == -2
SequenceRBF == -3
ZeroHash == "zero"

OP_0 == 0
OP_1NEGATE == 79
OP_1 == 81
OP_16 == 96
OP_NOP == 97
OP_VERIFY == 105
OP_RETURN == 106
OP_DROP == 117
OP_DUP == 118
OP_SWAP == 124
OP_EQUAL == 135
OP_EQUALVERIFY == 136
OP_SHA256 == 168
OP_HASH160 == 169
OP_CHECKSIG == 172
OP_CHECKSIGVERIFY == 173

\* compact difficulty targets used by the catalogue's blocks
BitsEasy == 545259519
BitsHard == 541065215

(***************************************************************************)
(* Data model: TxInput, TxOutput, Transaction, BlockHeader, Block          *)
(***************************************************************************)
TxInputSeq(h, i, sig, seq) ==
  [prevTxHash |-> h, outputIndex |-> i, signatureScript |-> sig, sequence |-> seq]

TxInput(h, i, sig) == TxInputSeq(h, i, sig, SequenceFinal)

\* a < b on uint32
U32Less(a, b) == IF (a < 0) = (b < 0) THEN a < b ELSE b < 0

TxOutput(v, pk) == [value |-> v, pubKeyScript |-> pk]

Transaction(ins, outs) == [inputs |-> ins, outputs |-> outs]

CoinbaseTx(sig, outs) == Transaction(<<TxInput(ZeroHash, CoinbaseIndex, sig)>>, outs)

\* The transactions blocks are built from, by txid.
\*   cg, c1a, ...  coinbases (c1t has two outputs, c2o pays 51)
\*   t1            spends the genesis coinbase, fee 10
\*   t2            spends the genesis coinbase too
\*   t3            spends t1's output with a script that fails (OP_RETURN)
\*   t4            spends c1a's output and the genesis coinbase
\*   t5            spends an output that never existed
\*   t6            spends c1a's output
\*   t7            spends the genesis coinbase and signals replaceability
\*   t8            spends t3's output
TxCatalog ==
  [ cg  |-> CoinbaseTx(<<0, 1>>, <<TxOutput(50, <<OP_1>>)>>),
    c1a |-> CoinbaseTx(<<1, 1>>, <<TxOutput(50, <<OP_1>>)>>),
    c2a |-> CoinbaseTx(<<2, 1>>, <<TxOutput(50, <<OP_1>>)>>),
    c1b |-> CoinbaseTx(<<1, 2>>, <<TxOutput(50, <<OP_1>>)>>),
    c2b |-> CoinbaseTx(<<2, 2>>, <<TxOutput(50, <<OP_1>>)>>),
    c1t |-> CoinbaseTx(<<1, 4>>, <<TxOutput(50, <<OP_1>>), TxOutput(50, <<OP_1>>)>>),
    c2o |-> CoinbaseTx(<<2, 5>>, <<TxOutput(51, <<OP_1>>)>>),
    t1  |-> Transaction(<<TxInput("cg", 0, <<>>)>>,
                        <<TxOutput(40, <<OP_1>>)>>),
    t2  |-> Transaction(<<TxInput("cg", 0, <<OP_NOP>>)>>,
                        <<TxOutput(50, <<OP_0>>)>>),
    t3  |-> Transaction(<<TxInput("t1", 0, <<OP_RETURN>>)>>,
                        <<TxOutput(40, <<OP_1>>)>>),
    t4  |-> Transaction(<<TxInput("c1a", 0, <<>>), TxInput("cg", 0, <<>>)>>,
                        <<TxOutput(90, <<OP_1>>)>>),
    t5  |-> Transaction(<<TxInput("nope", 0, <<>>)>>,
                        <<TxOutput(1, <<OP_1>>)>>),
    t6  |-> Transaction(<<TxInput("c1a", 0, <<>>)>>,
                        <<TxOutput(45, <<OP_1>>)>>),
    t7  |-> Transaction(<<TxInputSeq("cg", 0, <<>>, SequenceRBF)>>,
                        <<TxOutput(30, <<OP_1>>)>>),
    t8  |-> Transaction(<<TxInput("t3", 0, <<>>)>>,
                        <<TxOutput(35, <<OP_1>>)>>) ]

TxHashes == DOMAIN TxCatalog

\* serialization.HashTransaction: the txid of a transaction
HashTransaction(tx) == CHOOSE h \in TxHashes : TxCatalog[h] = tx

Txs(names) == [i \in 1..Len(names) |-> TxCatalog[names[i]]]

RECURSIVE ComputeMerkleRoot(_)
\* crypto.ComputeMerkleRoot with DoubleSHA256(left || right) kept as the
\* concatenation of the leaves below the node: two lists have the same root
\* exactly when they pad (last node duplicated per level) to the same leaves.
ComputeMerkleRoot(level) ==
  IF Len(level) = 0 THEN <<>>
  ELSE IF Len(level) = 1 THEN level[1]
  ELSE LET n == (Len(level) + 1) \div 2
           next == [i \in 1..n |->
                      level[2 * i - 1] \o
                      (IF 2 * i <= Len(level) THEN level[2 * i] ELSE level[2 * i - 1])]
       IN ComputeMerkleRoot(next)

TxHashList(txs) == [i \in 1..Len(txs) |-> <<HashTransaction(txs[i])>>]

BlockHeader(prev, root, bits, nonce) ==
  [prevBlockHash |-> prev, merkleRoot |-> root, bits |-> bits, nonce |-> nonce]

\* a block whose header carries the Merkle root of the transactions `rooted`
BlockWithRoot(prev, rooted, names, bits, nonce) ==
  [header |-> BlockHeader(prev, ComputeMerkleRoot(TxHashList(Txs(rooted))), bits, nonce),
   transactions |-> Txs(names)]

Block(prev, names, bits, nonce) == BlockWithRoot(prev, names, names, bits, nonce)

BlockOf(prev, names, bits, nonce) ==
  [prev |-> prev, rooted |-> names, names |-> names, bits |-> bits, nonce |-> nonce]

\* The blocks submitted to the node, by block hash.
\*   G            genesis
\*   A1, A2       chain A; A1 spends the genesis coinbase (fee 10), A2 spends
\*                t1's output with a script that fails
\*   B1, B2       chain B, forking at G, with more work per block
\*   B2o          child of B1 whose coinbase pays 51 > subsidy
\*   T1           child of G whose coinbase has two outputs of 50
\*   D1           child of G with two transactions spending the same output
\*   R1           child of G with a Merkle root that is not its transactions'
\*   O9           block whose parent is not known
BlockList ==
  [ G   |-> BlockOf(ZeroHash, <<"cg">>, BitsEasy, 0),
    A1  |-> BlockOf("G", <<"c1a", "t1">>, BitsEasy, 0),
    A2  |-> BlockOf("A1", <<"c2a", "t3">>, BitsEasy, 0),
    B1  |-> BlockOf("G", <<"c1b">>, BitsHard, 0),
    B2  |-> BlockOf("B1", <<"c2b">>, BitsHard, 0),
    B2o |-> BlockOf("B1", <<"c2o">>, BitsHard, 1),
    T1  |-> BlockOf("G", <<"c1t">>, BitsEasy, 2),
    D1  |-> BlockOf("G", <<"c1a", "t1", "t2">>, BitsEasy, 3),
    R1  |-> [prev |-> "G", rooted |-> <<"c1a">>, names |-> <<"c1b">>,
             bits |-> BitsEasy, nonce |-> 5],
    O9  |-> BlockOf("lost", <<"c2b">>, BitsEasy, 6) ]

BlockCatalog ==
  [h \in DOMAIN BlockList |->
     BlockWithRoot(BlockList[h].prev, BlockList[h].rooted, BlockList[h].names,
                   BlockList[h].bits, BlockList[h].nonce)]

BlockHashes == DOMAIN BlockCatalog

Blocks == {BlockCatalog[h] : h \in BlockHashes}

\* serialization.HashBlockHeader: the block hash of a header
HashBlockHeader(header) == CHOOSE h \in BlockHashes : BlockCatalog[h].header = header

\* leading zero bytes of a block hash (the B blocks were mined for one)
LeadingZeroBytes(hash) == IF hash \in {"B1", "B2", "B2o"} THEN 1 ELSE 0

(***************************************************************************)
(* Script VM (script.Engine, script.Stack)                                 *)
(***************************************************************************)
\* Stack.Push / Pop on a stack whose top is its last element
Push(stack, item) == Append(stack, item)

Pop(stack) == SubSeq(stack, 1, Len(stack) - 1)

Peek(stack) == stack[Len(stack)]

\* int64ToScriptNum for the values PushInt is called with (-1, 1..16)
Int64ToScriptNum(n) ==
  IF n = 0 THEN <<>> ELSE IF n < 0 THEN <<128 + (0 - n)>> ELSE <<n>>

\* SmallIntValue
SmallIntValue(op) ==
  IF op = OP_0 THEN 0 ELSE IF op = OP_1NEGATE THEN 0 - 1 ELSE op - OP_1 + 1

\* castToBool: the first non-zero byte decides; a lone trailing 0x80 is false
castToBool(b) ==
  LET nz == {i \in 1..Len(b) : b[i] # 0}
  IN IF nz = {} THEN FALSE
     ELSE LET i == CHOOSE j \in nz : \A k \in nz : j <= k
          IN ~(i = Len(b) /\ b[i] = 128)

\* RIPEMD160(SHA256(x)) and SHA256(x) as collision-free digests
Hash160Digest(item) == <<OP_HASH160>> \o item

Sha256Digest(item) == <<OP_SHA256>> \o item

Fail(pc, stack) == [ok |-> FALSE, pc |-> pc, stack |-> stack]

Cont(pc, stack) == [ok |-> TRUE, pc |-> pc, stack |-> stack]

\* Engine.opVerify
opVerify(pc, stack) ==
  IF Len(stack) = 0 THEN Fail(pc, stack)
  ELSE IF ~castToBool(Peek(stack)) THEN Fail(pc, Pop(stack))
  ELSE Cont(pc, Pop(stack))

\* Engine.opEqual
opEqual(pc, stack) ==
  IF Len(stack) < 2 THEN Fail(pc, stack)
  ELSE LET a == stack[Len(stack)]
           b == stack[Len(stack) - 1]
           rest == SubSeq(stack, 1, Len(stack) - 2)
       IN Cont(pc, Push(rest, IF a = b THEN <<1>> ELSE <<>>))

\* Engine.opCheckSig: true as soon as both the key and the signature are non-empty
opCheckSig(pc, stack) ==
  IF Len(stack) < 2 THEN Fail(pc, stack)
  ELSE LET pubKeyBytes == stack[Len(stack)]
           sigBytes == stack[Len(stack) - 1]
           rest == SubSeq(stack, 1, Len(stack) - 2)
       IN Cont(pc, Push(rest, IF Len(pubKeyBytes) = 0 \/ Len(sigBytes) = 0
                              THEN <<>> ELSE <<1>>))

\* Engine.step (and executePush): one opcode at 1-based position pc
step(script, pc, stack) ==
  LET opcode == script[pc]
      npc == pc + 1
  IN CASE opcode > 0 /\ opcode <= 75 ->
            IF npc + opcode > Len(script) + 1 THEN Fail(npc, stack)
            ELSE Cont(npc + opcode, Push(stack, SubSeq(script, npc, npc + opcode - 1)))
       [] opcode = OP_0 -> Cont(npc, Push(stack, <<>>))
       [] opcode = OP_1NEGATE -> Cont(npc, Push(stack, Int64ToScriptNum(0 - 1)))
       [] opcode >= OP_1 /\ opcode <= OP_16 ->
            Cont(npc, Push(stack, Int64ToScriptNum(SmallIntValue(opcode))))
       [] opcode = OP_NOP -> Cont(npc, stack)
       [] opcode = OP_VERIFY -> opVerify(npc, stack)
       [] opcode = OP_RETURN -> Fail(npc, stack)
       [] opcode = OP_DUP ->
            IF Len(stack) = 0 THEN Fail(npc, stack)
            ELSE Cont(npc, Push(stack, Peek(stack)))
       [] opcode = OP_EQUAL -> opEqual(npc, stack)
       [] opcode = OP_EQUALVERIFY ->
            LET r == opEqual(npc, stack)
            IN IF r.ok THEN opVerify(npc, r.stack) ELSE r
       [] opcode = OP_HASH160 ->
            IF Len(stack) = 0 THEN Fail(npc, stack)
            ELSE Cont(npc, Push(Pop(stack), Hash160Digest(Peek(stack))))
       [] opcode = OP_SHA256 ->
            IF Len(stack) = 0 THEN Fail(npc, stack)
            ELSE Cont(npc, Push(Pop(stack), Sha256Digest(Peek(stack))))
       [] opcode = OP_CHECKSIG -> opCheckSig(npc, stack)
       [] opcode = OP_CHECKSIGVERIFY ->
            LET r == opCheckSig(npc, stack)
            IN IF r.ok THEN opVerify(npc, r.stack) ELSE r
       [] opcode = OP_DROP ->
            IF Len(stack) = 0 THEN Fail(npc, stack) ELSE Cont(npc, Pop(stack))
       [] opcode = OP_SWAP ->
            IF Len(stack) < 2 THEN Fail(npc, stack)
            ELSE Cont(npc, SubSeq(stack, 1, Len(stack) - 2)
                           \o <<stack[Len(stack)], stack[Len(stack) - 1]>>)
       [] OTHER -> Fail(npc, stack)

RECURSIVE Run(_, _, _)
Run(script, pc, stack) ==
  IF pc > Len(script) THEN Cont(pc, stack)
  ELSE LET r == step(script, pc, stack)
       IN IF r.ok THEN Run(script, r.pc, r.stack) ELSE r

\* Engine.Execute: TRUE iff the script runs to its end and leaves true on top
Execute(script) ==
  LET r == Run(script, 1, <<>>)
  IN r.ok /\ Len(r.stack) > 0 /\ castToBool(Peek(r.stack))

(***************************************************************************)
(* Serialized sizes (serialization.SerializeTransaction / SerializeBlock)  *)
(***************************************************************************)
RECURSIVE SeqSum(_)
SeqSum(s) == IF Len(s) = 0 THEN 0 ELSE s[1] + SeqSum(Tail(s))

\* WriteVarInt: bytes taken by a compact-size integer
VarIntSize(n) == IF n < 253 THEN 1 ELSE IF n <= 65535 THEN 3 ELSE 5

SerializedTxSize(tx) ==
  4 + VarIntSize(Len(tx.inputs))
    + SeqSum([i \in 1..Len(tx.inputs) |->
                32 + 4 + VarIntSize(Len(tx.inputs[i].signatureScript))
                       + Len(tx.inputs[i].signatureScript) + 4])
    + VarIntSize(Len(tx.outputs))
    + SeqSum([i \in 1..Len(tx.outputs) |->
                8 + VarIntSize(Len(tx.outputs[i].pubKeyScript))
                  + Len(tx.outputs[i].pubKeyScript)])
    + 4

SerializedBlockSize(block) ==
  80 + VarIntSize(Len(block.transactions))
     + SeqSum([i \in 1..Len(block.transactions) |->
                 SerializedTxSize(block.transactions[i])])

(***************************************************************************)
(* UTXO set (utxo.UTXOSet): a map from outpoint to UTXO                    *)
(***************************************************************************)
NewOutPoint(hash, index) == [hash |-> hash, index |-> index]

NewUTXO(txHash, outputIndex, output, height, isCoinbase) ==
  [txHash |-> txHash, outputIndex |-> outputIndex, output |-> output,
   height |-> height, isCoinbase |-> isCoinbase]

\* UTXO.IsMature
IsMature(utxo, currentHeight) ==
  IF ~utxo.isCoinbase THEN TRUE ELSE currentHeight >= utxo.height + CoinbaseMaturity

NewUTXOSet == << >>

Delete(u, key) == [k \in DOMAIN u \ {key} |-> u[k]]

Put(u, key, val) == (key :> val) @@ u

RECURSIVE RemoveInputs(_, _, _)
\* the input loop of ApplyTransaction: every input found so far is deleted
\* before the next one is looked up
RemoveInputs(u, inputs, i) ==
  IF i > Len(inputs) THEN [ok |-> TRUE, utxos |-> u]
  ELSE LET key == NewOutPoint(inputs[i].prevTxHash, inputs[i].outputIndex)
       IN IF key \notin DOMAIN u THEN [ok |-> FALSE, utxos |-> u]
          ELSE RemoveInputs(Delete(u, key), inputs, i + 1)

RECURSIVE AddOutputs(_, _, _, _, _, _)
AddOutputs(u, outputs, i, txHash, height, isCoinbase) ==
  IF i > Len(outputs) THEN u
  ELSE AddOutputs(Put(u, NewOutPoint(txHash, i - 1),
                      NewUTXO(txHash, i - 1, outputs[i], height, isCoinbase)),
                  outputs, i + 1, txHash, height, isCoinbase)

\* UTXOSet.ApplyTransaction
ApplyTransaction(u, tx, txHash, height, isCoinbase) ==
  LET r == IF isCoinbase THEN [ok |-> TRUE, utxos |-> u]
           ELSE RemoveInputs(u, tx.inputs, 1)
  IN IF ~r.ok THEN r
     ELSE [ok |-> TRUE,
           utxos |-> AddOutputs(r.utxos, tx.outputs, 1, txHash, height, isCoinbase)]

\* UTXOSet.RevertTransaction: deletes the outputs the transaction created
RevertTransaction(u, tx, txHash) ==
  [k \in {o \in DOMAIN u : ~(o.hash = txHash /\ o.index \in 0..(Len(tx.outputs) - 1))}
     |-> u[k]]

\* UTXOSet.TotalValue
RECURSIVE SumValues(_, _)
SumValues(u, keys) ==
  IF keys = {} THEN 0
  ELSE LET k == CHOOSE x \in keys : TRUE
       IN u[k].output.value + SumValues(u, keys \ {k})

TotalValue(u) == SumValues(u, DOMAIN u)

(***************************************************************************)
(* Transaction checks (transaction.ValidateTransaction, IsCoinbase, ...)   *)
(***************************************************************************)
IsCoinbase(tx) ==
  /\ Len(tx.inputs) = 1
  /\ tx.inputs[1].prevTxHash = ZeroHash
  /\ tx.inputs[1].outputIndex = CoinbaseIndex

ValidateCoinbase(tx, blockHeight) ==
  IF ~IsCoinbase(tx) THEN "not a coinbase transaction"
  ELSE IF Len(tx.inputs[1].signatureScript) < 2 \/ Len(tx.inputs[1].signatureScript) > 100
       THEN "coinbase scriptSig length invalid"
  ELSE IF Len(tx.outputs) = 0 THEN "coinbase has no outputs"
  ELSE "ok"

ValidateTransaction(tx) ==
  IF Len(tx.inputs) = 0 THEN "transaction has no inputs"
  ELSE IF Len(tx.outputs) = 0 THEN "transaction has no outputs"
  ELSE IF \E i, j \in 1..Len(tx.inputs) :
            /\ i < j
            /\ tx.inputs[i].prevTxHash = tx.inputs[j].prevTxHash
            /\ tx.inputs[i].outputIndex = tx.inputs[j].outputIndex
       THEN "duplicate input"
  ELSE IF \E i \in 1..Len(tx.outputs) : tx.outputs[i].value < 0
       THEN "output has negative value"
  ELSE IF \E i \in 1..Len(tx.outputs) : tx.outputs[i].value > MaxMoney
       THEN "output value exceeds maximum"
  ELSE IF SerializedTxSize(tx) > MaxTxSize THEN "transaction too large"
  ELSE "ok"

(***************************************************************************)
(* Consensus helpers (validation package)                                  *)
(***************************************************************************)
RECURSIVE Pow2(_)
Pow2(n) == IF n = 0 THEN 1 ELSE 2 * Pow2(n - 1)

\* GetBlockReward: InitialBlockReward >> halvings, 0 from the 64th halving on
GetBlockReward(height) ==
  LET halvings == height \div SubsidyHalvingInterval
  IN IF halvings >= 64 THEN 0
     ELSE IF halvings >= 30 THEN 0   \* 50 >> k is already 0 from k = 6 on
     ELSE InitialBlockReward \div Pow2(halvings)

CheckMoneyRange(value) == value >= 0 /\ value <= MaxMoney

\* ValidateBlockReward
ValidateBlockReward(coinbaseValue, totalFees, height) ==
  coinbaseValue <= GetBlockReward(height) + totalFees

\* IsValidProofOfWork: requiredZeros is 0 in the source
IsValidProofOfWork(blockHash, bits) ==
  LET requiredZeros == 0
  IN LeadingZeroBytes(blockHash) >= requiredZeros

\* BlockValidator.validateInputScript: builds sig_script || pub_key_script
\* and returns nil without running it
validateInputScript(input, prevOutput, tx, inputIdx) ==
  LET combined == input.signatureScript \o prevOutput.pubKeyScript
  IN TRUE

\* BlockValidator.validateTransactionInputs against UTXO set u:
\* [err, fee]
validateTransactionInputs(u, tx) ==
  LET key(i) == NewOutPoint(tx.inputs[i].prevTxHash, tx.inputs[i].outputIndex)
      totalIn == SeqSum([i \in 1..Len(tx.inputs) |-> u[key(i)].output.value])
      totalOut == SeqSum([i \in 1..Len(tx.outputs) |-> tx.outputs[i].value])
  IN IF \E i \in 1..Len(tx.inputs) : key(i) \notin DOMAIN u
     THEN [err |-> "UTXO not found", fee |-> 0]
     ELSE IF \E i \in 1..Len(tx.inputs) :
               ~validateInputScript(tx.inputs[i], u[key(i)].output, tx, i - 1)
     THEN [err |-> "script validation failed", fee |-> 0]
     ELSE IF \E i \in 1..Len(tx.outputs) : ~CheckMoneyRange(tx.outputs[i].value)
     THEN [err |-> "money range", fee |-> 0]
     ELSE IF totalIn - totalOut < 0
     THEN [err |-> "outputs exceed inputs", fee |-> 0]
     ELSE [err |-> "ok", fee |-> totalIn - totalOut]

\* BlockValidator.validateBlockHeader
validateBlockHeader(header, prevBlockHash) ==
  IF header.prevBlockHash # prevBlockHash THEN "previous block hash mismatch"
  ELSE IF ~IsValidProofOfWork(HashBlockHeader(header), header.bits)
       THEN "insufficient proof of work"
  ELSE "ok"

\* BlockValidator.ValidateBlock against UTXO set u: "ok" or the first error
ValidateBlock(u, block, height, prevBlockHash) ==
  LET txs == block.transactions
      n == Len(txs)
      rest == 2..n
      firstBad(P(_)) == CHOOSE i \in rest : P(i) /\ \A j \in rest : P(j) => i <= j
      txErr(i) == IF ValidateTransaction(txs[i]) # "ok" THEN ValidateTransaction(txs[i])
                  ELSE validateTransactionInputs(u, txs[i]).err
      bad(i) == txErr(i) # "ok"
      totalFees == SeqSum([i \in 1..n |->
                             IF i = 1 THEN 0 ELSE validateTransactionInputs(u, txs[i]).fee])
      hashes == [i \in 1..n |-> HashTransaction(txs[i])]
  IN IF validateBlockHeader(block.header, prevBlockHash) # "ok"
     THEN validateBlockHeader(block.header, prevBlockHash)
     ELSE IF SerializedBlockSize(block) > MaxBlockSize THEN "block too large"
     ELSE IF n = 0 THEN "block has no transactions"
     ELSE IF ~IsCoinbase(txs[1]) THEN "first transaction is not coinbase"
     ELSE IF \E i \in rest : IsCoinbase(txs[i]) THEN "coinbase transaction must be first"
     ELSE IF ValidateCoinbase(txs[1], height) # "ok" THEN ValidateCoinbase(txs[1], height)
     ELSE IF \E i \in rest : bad(i) THEN txErr(firstBad(bad))
     ELSE IF ~ValidateBlockReward(txs[1].outputs[1].value, totalFees, height)
          THEN "invalid block reward"
     ELSE IF ComputeMerkleRoot(TxHashList(txs)) # block.header.merkleRoot
          THEN "merkle root mismatch"
     ELSE IF \E i, j \in 1..n : i < j /\ hashes[i] = hashes[j]
          THEN "duplicate transaction"
     ELSE "ok"

RECURSIVE ApplyBlockFrom(_, _, _, _)
ApplyBlockFrom(u, block, height, i) ==
  IF i > Len(block.transactions) THEN [ok |-> TRUE, utxos |-> u]
  ELSE LET tx == block.transactions[i]
           r == ApplyTransaction(u, tx, HashTransaction(tx), height, i = 1)
       IN IF ~r.ok THEN r ELSE ApplyBlockFrom(r.utxos, block, height, i + 1)

\* BlockValidator.ApplyBlock: stops at the first transaction that fails,
\* keeping what the transactions before it (and its own removed inputs) changed
ApplyBlock(u, block, height) == ApplyBlockFrom(u, block, height, 1)

RECURSIVE RevertBlockFrom(_, _, _)
RevertBlockFrom(u, block, i) ==
  IF i < 1 THEN u
  ELSE LET tx == block.transactions[i]
       IN RevertBlockFrom(RevertTransaction(u, tx, HashTransaction(tx)), block, i - 1)

\* BlockValidator.RevertBlock: RevertTransaction for each transaction, last first
RevertBlock(u, block) == RevertBlockFrom(u, block, Len(block.transactions))

(***************************************************************************)
(* Mempool (mempool.Mempool, mempool.PolicyValidator)                      *)
(***************************************************************************)
\* Mempool.minFeeRate as the node constructs its mempool
minFeeRate == 1

\* Go's int64 division, which truncates toward zero (b > 0)
GoDiv(a, b) == IF a >= 0 THEN a \div b ELSE 0 - ((0 - a) \div b)

\* CalculateTransactionSize
CalculateTransactionSize(tx) ==
  4 + 1
    + SeqSum([i \in 1..Len(tx.inputs) |->
                32 + 4 + 1 + Len(tx.inputs[i].signatureScript) + 4])
    + 1
    + SeqSum([i \in 1..Len(tx.outputs) |-> 8 + 1 + Len(tx.outputs[i].pubKeyScript)])
    + 4

\* PolicyValidator.IsRBFSignaled under the default policy (AllowRBF)
IsRBFSignaled(tx) ==
  \E i \in 1..Len(tx.inputs) : U32Less(tx.inputs[i].sequence, SequenceRBFLimit)

\* MempoolEntry; Tx and TxHash are the txid
MempoolEntry(txHash, size, fee, feeRate, time, height, parents) ==
  [txHash |-> txHash, size |-> size, fee |-> fee, feeRate |-> feeRate, time |-> time,
   height |-> height, parents |-> parents, children |-> <<>>,
   ancestorFee |-> 0, ancestorSize |-> 0]

\* NewMempool(maxSize, ...): minFeeRate and maxTxAge are the same in every
\* mempool of the model
NewMempoolOfSize(size) ==
  [entries |-> << >>, spentOutputs |-> << >>, currentSize |-> 0, currentHeight |-> 0,
   maxSize |-> size]

NewMempool == NewMempoolOfSize(maxSize)

\* the outpoints a transaction's inputs name
InputOutPoints(tx) ==
  {NewOutPoint(tx.inputs[i].prevTxHash, tx.inputs[i].outputIndex) : i \in 1..Len(tx.inputs)}

SeqRange(s) == {s[i] : i \in 1..Len(s)}

\* removeHash
removeHash(slice, hash) == SelectSeq(slice, LAMBDA h : h # hash)

RECURSIVE removeTransaction(_, _)
RECURSIVE removeChildren(_, _, _)
\* Mempool.removeTransaction: the entry, its spent-output records, its place in
\* its parents' child lists, then each of its children in turn
removeTransaction(m, txHash) ==
  IF txHash \notin DOMAIN m.entries THEN m
  ELSE LET entry == m.entries[txHash]
           gone == InputOutPoints(TxCatalog[txHash])
           unlink(h) == IF h \in SeqRange(entry.parents)
                        THEN [m.entries[h] EXCEPT !.children = removeHash(@, txHash)]
                        ELSE m.entries[h]
           m1 == [m EXCEPT
                    !.entries = [h \in DOMAIN m.entries \ {txHash} |-> unlink(h)],
                    !.currentSize = @ - entry.size,
                    !.spentOutputs = [o \in DOMAIN m.spentOutputs \ gone |-> m.spentOutputs[o]]]
       IN removeChildren(m1, entry.children, 1)

\* the loop of removeTransaction over the children of the removed entry
removeChildren(m, children, i) ==
  IF i > Len(children) THEN m
  ELSE removeChildren(removeTransaction(m, children[i]), children, i + 1)

\* Mempool.findParents: one element per input whose previous transaction is in
\* the mempool
findParents(m, tx) ==
  LET prev == [i \in 1..Len(tx.inputs) |->
                 IF tx.inputs[i].outputIndex = CoinbaseIndex THEN "none"
                 ELSE tx.inputs[i].prevTxHash]
  IN SelectSeq(prev, LAMBDA h : h # "none" /\ h \in DOMAIN m.entries)

\* Mempool.calculateAncestorMetrics: <<fee, size>> of the entry and what its
\* parents recorded for themselves
calculateAncestorMetrics(m, entry) ==
  LET there == SelectSeq(entry.parents, LAMBDA h : h \in DOMAIN m.entries)
  IN <<entry.fee + SeqSum([i \in 1..Len(there) |-> m.entries[there[i]].ancestorFee]),
       entry.size + SeqSum([i \in 1..Len(there) |-> m.entries[there[i]].ancestorSize])>>

\* Mempool.canReplace
canReplace(existing, newFee, newFeeRate) ==
  /\ ~(newFee <= existing.fee)
  /\ ~(newFeeRate <= existing.feeRate)
  /\ ~(newFee - existing.fee < minFeeRate * existing.size)

RECURSIVE SortInner(_, _, _, _)
RECURSIVE SortOuter(_, _, _)
\* the inner loop of the sort in evictTransactions: swap position i with every
\* later position that holds a lower fee rate
SortInner(m, es, i, j) ==
  IF j > Len(es) THEN es
  ELSE IF m.entries[es[i]].feeRate > m.entries[es[j]].feeRate
  THEN SortInner(m, [es EXCEPT ![i] = es[j], ![j] = es[i]], i, j + 1)
  ELSE SortInner(m, es, i, j + 1)

SortOuter(m, es, i) ==
  IF i >= Len(es) THEN es ELSE SortOuter(m, SortInner(m, es, i, i + 1), i + 1)

RECURSIVE EvictLoop(_, _, _, _, _, _)
\* the eviction loop: every listed entry is removed and its own size counted,
\* whether or not an earlier removal already took it away as a descendant
EvictLoop(m, sizes, es, i, freedSize, neededSize) ==
  IF i > Len(es) THEN [ok |-> FALSE, mempool |-> m]
  ELSE LET m1 == removeTransaction(m, es[i])
           freed == freedSize + sizes[es[i]]
       IN IF freed >= neededSize THEN [ok |-> TRUE, mempool |-> m1]
          ELSE EvictLoop(m1, sizes, es, i + 1, freed, neededSize)

evictTransactions_NoEviction(m, neededSize, iter) == [ok |-> TRUE, mempool |-> m]

\* Mempool.evictTransactions; iter is the order in which the map hands out
\* its entries
evictTransactions(m, neededSize, iter) ==
  LET es == SortOuter(m, SelectSeq(iter, LAMBDA h : h \in DOMAIN m.entries), 1)
      sizes == [h \in DOMAIN m.entries |-> m.entries[h].size]
  IN EvictLoop(m, sizes, es, 1, 0, neededSize)

RECURSIVE ReplaceConflicts(_, _, _, _, _)
\* the conflict loop of Mempool.Add over the inputs from the i-th on: a spender
\* that can be replaced is removed at once, one that cannot ends the call
ReplaceConflicts(m, tx, i, fee, feeRate) ==
  IF i > Len(tx.inputs) THEN [err |-> "", mempool |-> m]
  ELSE LET outpoint == NewOutPoint(tx.inputs[i].prevTxHash, tx.inputs[i].outputIndex)
       IN IF outpoint \notin DOMAIN m.spentOutputs
          THEN ReplaceConflicts(m, tx, i + 1, fee, feeRate)
          ELSE IF ~canReplace(m.entries[m.spentOutputs[outpoint]], fee, feeRate)
          THEN [err |-> "output already spent", mempool |-> m]
          ELSE ReplaceConflicts(removeTransaction(m, m.spentOutputs[outpoint]),
                                tx, i + 1, fee, feeRate)

FeeRateTooLow_Dropped(fee, size) == FALSE

\* the fee-rate test of Mempool.Add
FeeRateTooLow(fee, size) == GoDiv(fee, size) < minFeeRate

Insert_NoSpentIndex(m, txHash, size, fee, height, time) ==
  [m EXCEPT
     !.entries = (txHash :> MempoolEntry(txHash, size, fee, GoDiv(fee, size), time, height,
                                         findParents(m, TxCatalog[txHash])))
                 @@ m.entries,
     !.currentSize = @ + size]

\* the end of Mempool.Add: link the entry to its parents and store it
Insert(m, txHash, size, fee, height, time) ==
  LET tx == TxCatalog[txHash]
      parents == findParents(m, tx)
      e0 == MempoolEntry(txHash, size, fee, GoDiv(fee, size), time, height, parents)
      metrics == calculateAncestorMetrics(m, e0)
      entry == [e0 EXCEPT !.ancestorFee = metrics[1], !.ancestorSize = metrics[2]]
      times(h) == Len(SelectSeq(parents, LAMBDA p : p = h))
      RECURSIVE Repeat(_, _)
      Repeat(h, n) == IF n = 0 THEN <<>> ELSE <<h>> \o Repeat(h, n - 1)
      adopted(h) == [m.entries[h] EXCEPT !.children = @ \o Repeat(txHash, times(h))]
  IN [m EXCEPT
        !.entries = (txHash :> entry) @@ [h \in DOMAIN m.entries |-> adopted(h)],
        !.currentSize = @ + size,
        !.spentOutputs = [o \in InputOutPoints(tx) |-> txHash] @@ m.spentOutputs]

\* Mempool.Add(tx, fee, height) at time `time`, the map handing out its entries
\* in the order iter: [err, mempool]
Add(m, txHash, fee, height, time, iter) ==
  LET tx == TxCatalog[txHash]
      size == CalculateTransactionSize(tx)
      feeRate == GoDiv(fee, size)
      c == ReplaceConflicts(m, tx, 1, fee, feeRate)
      e == IF c.mempool.currentSize + size > m.maxSize
           THEN evictTransactions(c.mempool, size, iter)
           ELSE [ok |-> TRUE, mempool |-> c.mempool]
  IN IF txHash \in DOMAIN m.entries
     THEN [err |-> "transaction already in mempool", mempool |-> m]
     ELSE IF FeeRateTooLow(fee, size)
     THEN [err |-> "fee rate too low", mempool |-> m]
     ELSE IF c.err # "" THEN c
     ELSE IF ~e.ok
     THEN [err |-> "mempool full and cannot evict transactions", mempool |-> e.mempool]
     ELSE [err |-> "", mempool |-> Insert(e.mempool, txHash, size, fee, height, time)]

\* Mempool.ExpireTransactions: the entries older than maxTxAge are listed, then
\* removed one by one (with their descendants, so the order does not matter)
Expired(m, time) == {h \in DOMAIN m.entries : time - m.entries[h].time > maxTxAge}

RECURSIVE RemoveEach(_, _)
RemoveEach(m, hashes) ==
  IF hashes = {} THEN m
  ELSE LET h == CHOOSE x \in hashes : TRUE
       IN RemoveEach(removeTransaction(m, h), hashes \ {h})

ExpireTransactions(m, time) ==
  IF maxTxAge <= 0 THEN m ELSE RemoveEach(m, Expired(m, time))

\* Mempool.Clear
Clear(m) == [m EXCEPT !.entries = << >>, !.spentOutputs = << >>, !.currentSize = 0]

(***************************************************************************)
(* Block-template selection (mempool.PriorityQueue, mining.BlockBuilder)   *)
(***************************************************************************)
\* the space SelectTransactions sets aside for the coinbase
coinbaseSize == 200

\* PriorityQueue.getAncestorFeeRate
getAncestorFeeRate(entry) ==
  IF entry.ancestorSize = 0 THEN 0 ELSE GoDiv(entry.ancestorFee, entry.ancestorSize)

RECURSIVE RateInner(_, _, _, _)
RECURSIVE RateOuter(_, _, _)
\* the inner loop of sortByAncestorFeeRate: swap position i with every later
\* position that holds a higher ancestor fee rate
RateInner(m, es, i, j) ==
  IF j > Len(es) THEN es
  ELSE IF getAncestorFeeRate(m.entries[es[i]]) < getAncestorFeeRate(m.entries[es[j]])
  THEN RateInner(m, [es EXCEPT ![i] = es[j], ![j] = es[i]], i, j + 1)
  ELSE RateInner(m, es, i, j + 1)

RateOuter(m, es, i) ==
  IF i >= Len(es) THEN es ELSE RateOuter(m, RateInner(m, es, i, i + 1), i + 1)

\* PriorityQueue.Build: the entries in the order iter in which the map hands
\* them out, then sorted
Build(m, iter) == RateOuter(m, SelectSeq(iter, LAMBDA h : h \in DOMAIN m.entries), 1)

RECURSIVE SelectLoop(_, _, _, _, _, _)
\* the loop of SelectTransactions over the queue from position i on
SelectLoop(m, es, i, selected, currentSize, limit) ==
  IF i > Len(es) THEN selected
  ELSE LET entry == m.entries[es[i]]
           allParentsIncluded ==
             \A k \in 1..Len(entry.parents) : entry.parents[k] \in SeqRange(selected)
       IN IF currentSize + entry.size > limit \/ ~allParentsIncluded
          THEN SelectLoop(m, es, i + 1, selected, currentSize, limit)
          ELSE SelectLoop(m, es, i + 1, Append(selected, es[i]),
                          currentSize + entry.size, limit)

\* PriorityQueue.SelectTransactions: the selected txids, in order
SelectTransactions(m, maxBlockSize, iter) ==
  SelectLoop(m, Build(m, iter), 1, <<>>, 0, maxBlockSize - coinbaseSize)

RECURSIVE SelectDepsLoop(_, _, _, _, _, _)
\* the loop of SelectTransactionsWithDependencies over the queue from position
\* i on: an entry brings the parents it names that are not selected yet, one
\* element per input that names them
SelectDepsLoop(m, es, i, selected, currentSize, limit) ==
  IF i > Len(es) THEN selected
  ELSE IF es[i] \in SeqRange(selected)
  THEN SelectDepsLoop(m, es, i + 1, selected, currentSize, limit)
  ELSE LET entry == m.entries[es[i]]
           requiredParents ==
             SelectSeq(entry.parents,
                       LAMBDA p : p \notin SeqRange(selected) /\ p \in DOMAIN m.entries)
           totalSize ==
             entry.size
               + SeqSum([k \in 1..Len(requiredParents) |-> m.entries[requiredParents[k]].size])
       IN IF currentSize + totalSize > limit
          THEN SelectDepsLoop(m, es, i + 1, selected, currentSize, limit)
          ELSE SelectDepsLoop(m, es, i + 1, (selected \o requiredParents) \o <<es[i]>>,
                              currentSize + totalSize, limit)

\* PriorityQueue.SelectTransactionsWithDependencies: the selected txids, in order
SelectTransactionsWithDependencies(m, maxBlockSize, iter) ==
  SelectDepsLoop(m, Build(m, iter), 1, <<>>, 0, maxBlockSize - coinbaseSize)

\* BlockBuilder.selectTransactions: the selection for a block of 1 MB and the
\* fees of the entries that are in it, each entry counted once
selectTransactions(m, iter) ==
  LET selected == SelectTransactionsWithDependencies(m, MaxBlockSize, iter)
      fees == [h \in SeqRange(selected) |-> m.entries[h].fee]
      RECURSIVE Sum(_)
      Sum(S) == IF S = {} THEN 0
                ELSE LET x == CHOOSE y \in S : TRUE IN fees[x] + Sum(S \ {x})
  IN [selected |-> selected, totalFees |-> Sum(SeqRange(selected))]

(***************************************************************************)
(* State                                                                   *)
(***************************************************************************)
VARIABLES
  blockStore,    \* storage 'b' keys: block hash -> block
  heightIndex,   \* storage 'h' keys: height -> block hash
  txIndex,       \* storage 't' keys: txid -> <<block hash, index in block>>
  bestHash,      \* storage 'c' key bestblock (ZeroHash while unset)
  bestHeight,    \* storage 'c' key bestheight (0 while unset)
  utxos,         \* UTXOSet.utxos
  reorg,         \* the HandleReorg call in progress, if any, with the chain
                 \* state it started from
  last,          \* the last call that returned: the operation, the hash of
                 \* the block (or transaction) it was given, and how it ended
  calls,         \* number of calls made on the node so far
  mempool,       \* Mempool: entries, spentOutputs, currentSize, currentHeight
  now,           \* time.Now().Unix(), counted from the start of the node
  sync,          \* the goroutines of the peers and of the miner: SyncManager.mutex,
                 \* where each goroutine is and what it has read so far
  net,           \* the P2P node: its peer table, each connection's socket,
                 \* channels, loops and handshake, the accept loop and Stop
  mining         \* the Miner.MineBlock call in progress: the nonce, the
                 \* attempts made and how the call ended

storageVars == <<blockStore, heightIndex, txIndex, bestHash, bestHeight>>

mempoolVars == <<mempool, now>>

vars ==
  <<blockStore, heightIndex, txIndex, bestHash, bestHeight, utxos, reorg, last, calls,
    mempool, now, sync, net, mining>>

Idle ==
  [pc |-> "idle", newBlocks |-> <<>>, tip |-> ZeroHash, forkHeight |-> 0, next |-> 0,
   orphaned |-> <<>>,
   preUtxos |-> << >>, preBestHash |-> ZeroHash, preBestHeight |-> 0,
   preHeightIndex |-> << >>]

Outcome(op, id, result) == [op |-> op, id |-> id, result |-> result]

Peers == {"peer1", "peer2"}

Miner == "miner"

\* no goroutine is in a handler: the mutex is free, no block was saved by a
\* peer, SyncManager.requestedBlocks is empty and no block was asked for
NoSync ==
  [mutex |-> "free",
   pc |-> [p \in Peers \cup {Miner} |-> "idle"],
   block |-> [p \in Peers \cup {Miner} |-> "none"],
   height |-> [p \in Peers \cup {Miner} |-> 0],
   saved |-> [h \in BlockHashes |-> 0],
   requestedBlocks |-> << >>,
   asked |-> [h \in BlockHashes |-> 0]]

\* the peers that connect to the P2P node
NetPeers == {"peer1", "peer2"}

\* the P2P node as NewNode leaves it: no peer, n.quit open, nothing running
NoNet ==
  [peers |-> {},                               \* Node.peers, by address
   inbound |-> [p \in NetPeers |-> FALSE],      \* Peer.Inbound
   version |-> {},                             \* the peers whose Peer.Version is set
   verAckReceived |-> {},                      \* Peer.VerAckReceived
   wire |-> [p \in NetPeers |-> <<>>],          \* the commands handed to Peer.Send
   quit |-> FALSE,                             \* n.quit is closed
   peerLock |-> "free",                        \* who holds Node.peerLock
   accept |-> "none",                          \* where acceptLoop is
   stop |-> "idle",                            \* where Node.Stop is
   todo |-> {},                                \* the peers Stop has yet to stop
   cur |-> "none",                             \* the peer Stop is stopping
   panicked |-> FALSE,                         \* a goroutine panicked: the process is gone
   quitClosed |-> {},                          \* the peers whose Quit is closed
   connClosed |-> {},                          \* the peers whose Conn is closed
   hp |-> [p \in NetPeers |-> "none"],          \* where handlePeer is
   rl |-> [p \in NetPeers |-> "none"],          \* where readLoop is
   wl |-> [p \in NetPeers |-> "none"],          \* where writeLoop is
   recv |-> [p \in NetPeers |-> 0],             \* messages waiting in Peer.Receive
   send |-> [p \in NetPeers |-> 0]]             \* messages waiting in Peer.Send

\* no MineBlock call was made and the node's context is not cancelled
NoMining == [pc |-> "idle", cancelled |-> FALSE]

Init ==
  /\ blockStore = << >>
  /\ heightIndex = << >>
  /\ txIndex = << >>
  /\ bestHash = ZeroHash
  /\ bestHeight = 0
  /\ utxos = NewUTXOSet
  /\ reorg = Idle
  /\ last = Outcome("none", "none", "none")
  /\ calls = 0
  /\ mempool = NewMempool
  /\ now = 0
  /\ sync = NoSync
  /\ net = NoNet
  /\ mining = NoMining

(***************************************************************************)
(* Storage facade (storage.BlockchainStorage, storage.ChainState)          *)
(***************************************************************************)
\* a call enters the node
Enter == reorg.pc = "idle" /\ calls < MaxCalls /\ calls' = calls + 1

\* BlockchainStorage.SaveBlock: one atomic batch writing the block, the
\* height index, one location per transaction and the chain tip
SaveBlock(block, height) ==
  LET blockHash == HashBlockHeader(block.header)
      n == Len(block.transactions)
      txh(i) == HashTransaction(block.transactions[i])
      written == {txh(i) : i \in 1..n}
      lastAt(h) == CHOOSE i \in 1..n : txh(i) = h /\ \A j \in 1..n : txh(j) = h => j <= i
  IN /\ blockStore' = Put(blockStore, blockHash, block)
     /\ heightIndex' = Put(heightIndex, height, blockHash)
     /\ txIndex' = [h \in DOMAIN txIndex \cup written |->
                      IF h \in written THEN <<blockHash, lastAt(h) - 1>> ELSE txIndex[h]]
     /\ bestHash' = blockHash
     /\ bestHeight' = height

\* BlockchainStorage.HasBlock
HasBlock(hash) == hash \in DOMAIN blockStore

\* BlockchainStorage.IsEmpty / ChainState.IsEmpty
IsEmpty == bestHash = ZeroHash

\* BlockchainStorage.GetBlockByHeight succeeds
HasHeight(h) == h \in DOMAIN heightIndex /\ heightIndex[h] \in DOMAIN blockStore

GetBlockByHeight(h) == blockStore[heightIndex[h]]

\* BlockchainStorage.GetBlockHeight(hash): the height the index gives the block
KnowsHeight(hash) == \E h \in DOMAIN heightIndex : heightIndex[h] = hash

GetBlockHeight(hash) ==
  CHOOSE h \in DOMAIN heightIndex :
    /\ heightIndex[h] = hash
    /\ \A g \in DOMAIN heightIndex : heightIndex[g] = hash => h <= g

(***************************************************************************)
(* Block acceptance                                                        *)
(***************************************************************************)
\* ChainState.addGenesisBlock: no validation; a failed save is not reverted
addGenesisBlock(block, saveOk) ==
  LET hash == HashBlockHeader(block.header)
      r == ApplyBlock(utxos, block, 0)
  IN IF Len(block.transactions) = 0
     THEN /\ last' = Outcome("AddBlock", hash, "invalid")
          /\ UNCHANGED <<storageVars, utxos>>
     ELSE IF ~r.ok
     THEN /\ utxos' = r.utxos
          /\ last' = Outcome("AddBlock", hash, "apply_failed")
          /\ UNCHANGED storageVars
     ELSE IF ~saveOk
     THEN /\ utxos' = r.utxos
          /\ last' = Outcome("AddBlock", hash, "save_failed")
          /\ UNCHANGED storageVars
     ELSE /\ utxos' = r.utxos
          /\ SaveBlock(block, 0)
          /\ last' = Outcome("AddBlock", hash, "ok")

\* validate, apply, save, and revert when the save fails: the tail shared by
\* ChainState.AddBlock and ChainValidator.AcceptBlock
ValidateApplySave(op, block, newHeight, prevHash, saveOk) ==
  LET hash == HashBlockHeader(block.header)
      v == ValidateBlock(utxos, block, newHeight, prevHash)
      r == ApplyBlock(utxos, block, newHeight)
  IN IF v # "ok"
     THEN /\ last' = Outcome(op, hash, "invalid")
          /\ UNCHANGED <<storageVars, utxos>>
     ELSE IF ~r.ok
     THEN /\ utxos' = r.utxos
          /\ last' = Outcome(op, hash, "apply_failed")
          /\ UNCHANGED storageVars
     ELSE IF ~saveOk
     THEN /\ utxos' = RevertBlock(r.utxos, block)
          /\ last' = Outcome(op, hash, "save_failed")
          /\ UNCHANGED storageVars
     ELSE /\ utxos' = r.utxos
          /\ SaveBlock(block, newHeight)
          /\ last' = Outcome(op, hash, "ok")

\* ChainState.AddBlock
AddBlock(block, saveOk) ==
  /\ Enter
  /\ IF IsEmpty
     THEN addGenesisBlock(block, saveOk)
     ELSE ValidateApplySave("AddBlock", block, bestHeight + 1, bestHash, saveOk)
  /\ UNCHANGED <<reorg, mempoolVars, sync, net, mining>>

\* ChainValidator.ValidateNewBlock
ValidateNewBlock(block) == ValidateBlock(utxos, block, bestHeight + 1, bestHash)

AcceptBlock_NoTipCheck(block, saveOk) ==
  /\ Enter
  /\ IF IsEmpty
     THEN ValidateApplySave("AcceptBlock", block, 0, ZeroHash, saveOk)
     ELSE ValidateApplySave("AcceptBlock", block, bestHeight + 1, ZeroHash, saveOk)
  /\ UNCHANGED <<reorg, mempoolVars, sync, net, mining>>

\* ChainValidator.AcceptBlock: on a non-empty chain prevHash is never assigned,
\* so the second ValidateBlock compares the block's parent with the zero hash
AcceptBlock(block, saveOk) ==
  /\ Enter
  /\ IF IsEmpty
     THEN ValidateApplySave("AcceptBlock", block, 0, ZeroHash, saveOk)
     ELSE IF ValidateNewBlock(block) # "ok"
     THEN /\ last' = Outcome("AcceptBlock", HashBlockHeader(block.header), "invalid")
          /\ UNCHANGED <<storageVars, utxos>>
     ELSE ValidateApplySave("AcceptBlock", block, bestHeight + 1, ZeroHash, saveOk)
  /\ UNCHANGED <<reorg, mempoolVars, sync, net, mining>>

\* delete(sm.requestedBlocks, hash) in HandleBlock: the block is no longer
\* waited for
Arrived(sy, hash) ==
  [sy EXCEPT !.requestedBlocks = [h \in DOMAIN @ \ {hash} |-> @[h]],
             !.asked[hash] = 0]

\* SyncManager.HandleBlock: a block from a peer is saved at its parent's
\* height + 1 (at 0 when its parent hash is zero) without validation and
\* without touching the UTXO set
HandleBlock(block, saveOk) ==
  LET hash == HashBlockHeader(block.header)
      prevHash == block.header.prevBlockHash
      done(result) ==
        /\ last' = Outcome("HandleBlock", hash, result)
        /\ UNCHANGED storageVars
      save(height) ==
        IF saveOk
        THEN /\ SaveBlock(block, height)
             /\ last' = Outcome("HandleBlock", hash, "ok")
        ELSE done("save_failed")
  IN /\ Enter
     /\ IF HasBlock(hash) THEN done("exists")
        ELSE IF ~HasBlock(prevHash)
        THEN IF prevHash = ZeroHash THEN save(0) ELSE done("orphan")
        ELSE IF ~KnowsHeight(prevHash) THEN done("no_parent_height")
        ELSE save(GetBlockHeight(prevHash) + 1)
     /\ sync' = Arrived(sync, hash)
     /\ UNCHANGED <<utxos, reorg, mempoolVars, net, mining>>

(***************************************************************************)
(* Chain reorganisation (reorg.ReorgDetector, reorg.ReorgHandler)          *)
(***************************************************************************)
\* calculateBlockWork: 2^256 \div (target + 1), target = coefficient << 8*(exponent-3).
\* With s = 8*(exponent-3), N = 2^(256-s) and 0 < N \div coefficient < 2^s the
\* quotient is N \div coefficient, less one when coefficient divides N; the
\* operator covers the compact targets with exponent >= 32, where N fits.
calculateBlockWork(bits) ==
  LET exponent == bits \div Pow2(24)
      coefficient == bits % Pow2(24)
      N == Pow2(256 - 8 * (exponent - 3))
  IN IF N % coefficient = 0 THEN (N \div coefficient) - 1 ELSE N \div coefficient

\* ReorgDetector.calculateChainWork: fails when a height has no block
ChainWorkKnown(height) == \A h \in 0..height : HasHeight(h)

calculateChainWork(height) ==
  SeqSum([i \in 1..(height + 1) |-> calculateBlockWork(GetBlockByHeight(i - 1).header.bits)])

\* ReorgDetector.calculateNewChainWork
calculateNewChainWork(forkHeight, newBlocks) ==
  calculateChainWork(forkHeight)
    + SeqSum([i \in 1..Len(newBlocks) |-> calculateBlockWork(newBlocks[i].header.bits)])

DetectReorg_AtLeast(newBlocks) ==
  LET no(err) == [err |-> err, needsReorg |-> FALSE, forkHeight |-> 0]
      prevHash == newBlocks[1].header.prevBlockHash
      forkHeight == GetBlockHeight(prevHash)
  IN IF Len(newBlocks) = 0 THEN no("no blocks provided")
     ELSE IF IsEmpty THEN no("failed to get current tip")
     ELSE IF ~ChainWorkKnown(bestHeight) THEN no("failed to calculate current work")
     ELSE IF ~KnowsHeight(prevHash) THEN no("failed to find fork point")
     ELSE IF ~ChainWorkKnown(forkHeight) THEN no("failed to calculate new work")
     ELSE [err |-> "",
           needsReorg |-> calculateNewChainWork(forkHeight, newBlocks)
                            >= calculateChainWork(bestHeight),
           forkHeight |-> forkHeight]

\* ReorgDetector.DetectReorg (with findForkPoint): [err, needsReorg, forkHeight]
DetectReorg(newBlocks) ==
  LET no(err) == [err |-> err, needsReorg |-> FALSE, forkHeight |-> 0]
      prevHash == newBlocks[1].header.prevBlockHash
      forkHeight == GetBlockHeight(prevHash)
  IN IF Len(newBlocks) = 0 THEN no("no blocks provided")
     ELSE IF IsEmpty THEN no("failed to get current tip")
     ELSE IF ~ChainWorkKnown(bestHeight) THEN no("failed to calculate current work")
     ELSE IF ~KnowsHeight(prevHash) THEN no("failed to find fork point")
     ELSE IF ~ChainWorkKnown(forkHeight) THEN no("failed to calculate new work")
     ELSE [err |-> "",
           needsReorg |-> calculateNewChainWork(forkHeight, newBlocks)
                            > calculateChainWork(bestHeight),
           forkHeight |-> forkHeight]

\* ReorgHandler.revertBlock: removes the outputs of every transaction of the
\* block; the loop meant to restore the spent inputs does nothing
revertBlock(u, block) ==
  LET outs(tx) == {NewOutPoint(HashTransaction(tx), j) : j \in 0..(Len(tx.outputs) - 1)}
      gone == UNION {outs(block.transactions[i]) : i \in 1..Len(block.transactions)}
  IN [k \in DOMAIN u \ gone |-> u[k]]

RECURSIVE RevertDown(_, _, _)
\* the loop of disconnectBlocks: revert the blocks at heights h, h-1, ..., low+1
RevertDown(u, h, low) ==
  IF h <= low THEN u ELSE RevertDown(revertBlock(u, GetBlockByHeight(h)), h - 1, low)

DisconnectedBlocks(high, low) ==
  [i \in 1..(IF high > low THEN high - low ELSE 0) |-> GetBlockByHeight(high + 1 - i)]

\* ReorgHandler.HandleReorg up to the decision of DetectReorg
HandleReorg(newBlocks) ==
  LET d == DetectReorg(newBlocks)
      id == IF Len(newBlocks) = 0 THEN "none"
            ELSE HashBlockHeader(newBlocks[Len(newBlocks)].header)
  IN /\ Enter
     /\ IF d.err # ""
        THEN /\ last' = Outcome("HandleReorg", id, "detect_failed")
             /\ UNCHANGED reorg
        ELSE IF ~d.needsReorg
        THEN /\ last' = Outcome("HandleReorg", id, "no_reorg")
             /\ UNCHANGED reorg
        ELSE /\ reorg' = [pc |-> "disconnect", newBlocks |-> newBlocks, tip |-> id,
                          forkHeight |-> d.forkHeight, next |-> 1, orphaned |-> <<>>,
                          preUtxos |-> utxos, preBestHash |-> bestHash,
                          preBestHeight |-> bestHeight, preHeightIndex |-> heightIndex]
             /\ UNCHANGED last
     /\ UNCHANGED <<storageVars, utxos, mempoolVars, sync, net, mining>>

\* ReorgHandler.disconnectBlocks (with updateChainState): revert every block
\* above the fork point, then save the fork block again to move the tip there
DisconnectBlocks(saveOk) ==
  /\ reorg.pc = "disconnect"
  /\ UNCHANGED <<calls, mempoolVars, sync, net, mining>>
  /\ utxos' = RevertDown(utxos, bestHeight, reorg.forkHeight)
  /\ IF saveOk
     THEN /\ SaveBlock(GetBlockByHeight(reorg.forkHeight), reorg.forkHeight)
          /\ reorg' = [reorg EXCEPT !.pc = "connect",
                         !.orphaned = DisconnectedBlocks(bestHeight, reorg.forkHeight)]
          /\ UNCHANGED last
     ELSE /\ UNCHANGED storageVars
          /\ reorg' = Idle
          /\ last' = Outcome("HandleReorg", reorg.tip, "disconnect_failed")

\* one iteration of the loop of ReorgHandler.connectBlocks; an error ends
\* HandleReorg, which restores nothing
ConnectBlock(saveOk) ==
  LET block == reorg.newBlocks[reorg.next]
      height == reorg.forkHeight + reorg.next
      prevHash == HashBlockHeader(GetBlockByHeight(height - 1).header)
      v == IF ~HasHeight(height - 1) THEN "failed to get previous block"
           ELSE ValidateBlock(utxos, block, height, prevHash)
      r == ApplyBlock(utxos, block, height)
      fail(err) == /\ reorg' = Idle
                   /\ last' = Outcome("HandleReorg", reorg.tip, "connect_failed")
  IN /\ reorg.pc = "connect"
     /\ UNCHANGED <<calls, mempoolVars, sync, net, mining>>
     /\ IF v # "ok"
        THEN fail(v) /\ UNCHANGED <<storageVars, utxos>>
        ELSE IF ~r.ok
        THEN fail("failed to apply block") /\ utxos' = r.utxos /\ UNCHANGED storageVars
        ELSE IF ~saveOk
        THEN fail("failed to save block") /\ utxos' = r.utxos /\ UNCHANGED storageVars
        ELSE /\ utxos' = r.utxos
             /\ SaveBlock(block, height)
             /\ reorg' = [reorg EXCEPT !.next = reorg.next + 1,
                            !.pc = IF reorg.next = Len(reorg.newBlocks)
                                   THEN "return" ELSE "connect"]
             /\ UNCHANGED last

RECURSIVE Flatten(_)
Flatten(ss) == IF Len(ss) = 0 THEN <<>> ELSE ss[1] \o Flatten(Tail(ss))

\* the transactions returnOrphanedTransactions hands to mempool.Add: the
\* non-coinbase transactions of the disconnected blocks that no new block holds
OrphanedTransactions(orphanedBlocks, newBlocks) ==
  LET hashes(b) == {HashTransaction(b.transactions[j]) : j \in 1..Len(b.transactions)}
      newChainTxs == UNION {hashes(newBlocks[i]) : i \in 1..Len(newBlocks)}
      keep(b) == SelectSeq([j \in 1..Len(b.transactions) |->
                              IF j = 1 THEN "none" ELSE HashTransaction(b.transactions[j])],
                           LAMBDA h : h # "none" /\ h \notin newChainTxs)
  IN Flatten([i \in 1..Len(orphanedBlocks) |-> keep(orphanedBlocks[i])])

\* one order in which the map may hand out its entries
MapOrder(m) ==
  CHOOSE s \in [1..Cardinality(DOMAIN m.entries) -> DOMAIN m.entries] :
    SeqRange(s) = DOMAIN m.entries

RECURSIVE AddOrphaned(_, _, _, _)
\* the calls mempool.Add(&tx, 0, 0) of returnOrphanedTransactions, errors
\* ignored; a fee of 0 is turned away before the map is walked, so the order
\* in which it would hand out its entries is left open
AddOrphaned(m, hashes, i, time) ==
  IF i > Len(hashes) THEN m
  ELSE AddOrphaned(Add(m, hashes[i], 0, 0, time, MapOrder(m)).mempool, hashes, i + 1, time)

\* ReorgHandler.returnOrphanedTransactions and the successful return of HandleReorg
ReturnOrphanedTransactions ==
  /\ reorg.pc = "return"
  /\ UNCHANGED <<calls, now, sync, net, mining>>
  /\ reorg' = Idle
  /\ mempool' = AddOrphaned(mempool, OrphanedTransactions(reorg.orphaned, reorg.newBlocks),
                            1, now)
  /\ last' = Outcome("HandleReorg", reorg.tip, "ok")
  /\ UNCHANGED <<storageVars, utxos>>

(***************************************************************************)
(* ChainState.RebuildUTXOSet: replay of the indexed chain on an empty set  *)
(***************************************************************************)
RECURSIVE ReplayFrom(_, _, _, _, _)
\* the loop of RebuildUTXOSet over heights h..height of the given index
ReplayFrom(u, store, index, h, height) ==
  IF h > height THEN [ok |-> TRUE, utxos |-> u]
  ELSE IF ~(h \in DOMAIN index /\ index[h] \in DOMAIN store)
  THEN [ok |-> FALSE, utxos |-> u]
  ELSE LET r == ApplyBlock(u, store[index[h]], h)
       IN IF r.ok THEN ReplayFrom(r.utxos, store, index, h + 1, height) ELSE r

RebuildUTXOSet(store, index, height) == ReplayFrom(NewUTXOSet, store, index, 0, height)

(***************************************************************************)
(* The node: blocks arrive through block acceptance, peers and reorgs      *)
(***************************************************************************)
RECURSIVE SeqsUpTo(_, _)
SeqsUpTo(S, n) ==
  IF n = 0 THEN {<<>>}
  ELSE SeqsUpTo(S, n - 1) \cup {Append(s, x) : s \in {t \in SeqsUpTo(S, n - 1) : Len(t) = n - 1}, x \in S}

\* the lists of blocks handed to HandleReorg: each block names the one before
\* it as its parent
NewChains ==
  {bs \in SeqsUpTo(Blocks, MaxNewBlocks) :
     \A i \in 2..Len(bs) : bs[i].header.prevBlockHash = HashBlockHeader(bs[i - 1].header)}

Next ==
  \/ \E b \in Blocks, saveOk \in BOOLEAN : AddBlock(b, saveOk)
  \/ \E b \in Blocks, saveOk \in BOOLEAN : AcceptBlock(b, saveOk)
  \/ \E b \in Blocks, saveOk \in BOOLEAN : HandleBlock(b, saveOk)
  \/ \E bs \in NewChains : HandleReorg(bs)
  \/ \E saveOk \in BOOLEAN : DisconnectBlocks(saveOk)
  \/ \E saveOk \in BOOLEAN : ConnectBlock(saveOk)
  \/ ReturnOrphanedTransactions

Spec == Init /\ [][Next]_vars

(***************************************************************************)
(* The UTXO set on its own: direct calls of its operations                 *)
(***************************************************************************)
\* the transactions and blocks handed to the UTXO set directly
UtxoTxs == {"cg", "c1a", "t1", "t4"}

UtxoBlocks ==
  {b \in Blocks : \A i \in 1..Len(b.transactions) : HashTransaction(b.transactions[i]) \in UtxoTxs}

\* UTXOSet.ApplyTransaction called directly
CallApplyTransaction(txHash, height, isCoinbase) ==
  LET r == ApplyTransaction(utxos, TxCatalog[txHash], txHash, height, isCoinbase)
  IN /\ utxos' = r.utxos
     /\ last' = Outcome("ApplyTransaction", txHash, IF r.ok THEN "ok" ELSE "failed")
     /\ UNCHANGED <<storageVars, reorg, calls, mempoolVars, sync, net, mining>>

\* UTXOSet.RevertTransaction called directly
CallRevertTransaction(txHash) ==
  /\ utxos' = RevertTransaction(utxos, TxCatalog[txHash], txHash)
  /\ last' = Outcome("RevertTransaction", txHash, "ok")
  /\ UNCHANGED <<storageVars, reorg, calls, mempoolVars, sync, net, mining>>

\* BlockValidator.ApplyBlock called directly
CallApplyBlock(block, height) ==
  LET r == ApplyBlock(utxos, block, height)
  IN /\ utxos' = r.utxos
     /\ last' = Outcome("ApplyBlock", HashBlockHeader(block.header), IF r.ok THEN "ok" ELSE "failed")
     /\ UNCHANGED <<storageVars, reorg, calls, mempoolVars, sync, net, mining>>

\* BlockValidator.RevertBlock called directly
CallRevertBlock(block) ==
  /\ utxos' = RevertBlock(utxos, block)
  /\ last' = Outcome("RevertBlock", HashBlockHeader(block.header), "ok")
  /\ UNCHANGED <<storageVars, reorg, calls, mempoolVars, sync, net, mining>>

NextUtxo ==
  \/ \E h \in UtxoTxs, height \in 0..MaxHeight, c \in BOOLEAN : CallApplyTransaction(h, height, c)
  \/ \E h \in UtxoTxs : CallRevertTransaction(h)
  \/ \E b \in UtxoBlocks, height \in 0..MaxHeight : CallApplyBlock(b, height)
  \/ \E b \in UtxoBlocks : CallRevertBlock(b)

SpecUtxo == Init /\ [][NextUtxo]_vars

(***************************************************************************)
(* The mempool on its own: direct calls of its operations                  *)
(***************************************************************************)
\* the transactions and fees (in satoshi) handed to the mempool; a fee of 0
\* is what returnOrphanedTransactions offers
MempoolTxs == {"t1", "t2", "t3", "t4", "t6", "t7"}

Fees == {-1, 0, 70, 130, 250}

RECURSIVE Orders(_)
\* every order in which a map may hand out the keys S
Orders(S) ==
  IF S = {} THEN {<<>>} ELSE UNION {{<<x>> \o o : o \in Orders(S \ {x})} : x \in S}

\* the last call on the mempool: Outcome with the fee Add was given
AddOutcome(txHash, fee, result) ==
  [op |-> "Add", id |-> txHash, result |-> result, fee |-> fee]

\* Mempool.Add called by the node (handleTx, returnOrphanedTransactions)
CallAdd(txHash, fee, iter) ==
  LET r == Add(mempool, txHash, fee, bestHeight, now, iter)
  IN /\ mempool' = r.mempool
     /\ last' = AddOutcome(txHash, fee, IF r.err = "" THEN "ok" ELSE r.err)
     /\ UNCHANGED <<storageVars, utxos, reorg, calls, now, sync, net, mining>>

\* Mempool.Remove
CallRemove(txHash) ==
  /\ mempool' = removeTransaction(mempool, txHash)
  /\ last' = Outcome("Remove", txHash,
                     IF txHash \in DOMAIN mempool.entries THEN "ok"
                     ELSE "transaction not in mempool")
  /\ UNCHANGED <<storageVars, utxos, reorg, calls, now, sync, net, mining>>

\* Mempool.ExpireTransactions
CallExpireTransactions ==
  /\ mempool' = ExpireTransactions(mempool, now)
  /\ last' = Outcome("ExpireTransactions", "none", "ok")
  /\ UNCHANGED <<storageVars, utxos, reorg, calls, now, sync, net, mining>>

\* Mempool.Clear
CallClear ==
  /\ mempool' = Clear(mempool)
  /\ last' = Outcome("Clear", "none", "ok")
  /\ UNCHANGED <<storageVars, utxos, reorg, calls, now, sync, net, mining>>

\* a second passes
Tick ==
  /\ now < MaxNow
  /\ now' = now + 1
  /\ UNCHANGED <<storageVars, utxos, reorg, calls, mempool, last, sync, net, mining>>

NextMempool ==
  \/ \E h \in MempoolTxs, fee \in Fees, iter \in Orders(DOMAIN mempool.entries) :
       CallAdd(h, fee, iter)
  \/ \E h \in MempoolTxs : CallRemove(h)
  \/ CallExpireTransactions
  \/ CallClear
  \/ Tick

SpecMempool == Init /\ [][NextMempool]_vars

(***************************************************************************)
(* Block templates: a mempool that is filled and then selected from       *)
(***************************************************************************)
\* the capacity of the mempool the templates are built from
TemplateMaxSize == 190

\* the size of a block that leaves room for two transactions next to the
\* coinbase
SmallBlockSize == 330

TemplateTxs == {"t1", "t3", "t8"}

TemplateFees == {70, 250}

InitTemplate ==
  /\ blockStore = << >>
  /\ heightIndex = << >>
  /\ txIndex = << >>
  /\ bestHash = ZeroHash
  /\ bestHeight = 0
  /\ utxos = NewUTXOSet
  /\ reorg = Idle
  /\ last = Outcome("none", "none", "none")
  /\ calls = 0
  /\ mempool = NewMempoolOfSize(TemplateMaxSize)
  /\ now = 0
  /\ sync = NoSync
  /\ net = NoNet
  /\ mining = NoMining

\* the last selection: Outcome with the list that was returned
SelectOutcome(op, selected) ==
  [op |-> op, id |-> "none", result |-> "ok", selected |-> selected]

\* PriorityQueue.SelectTransactions called on the mempool
CallSelectTransactions(maxBlockSize, iter) ==
  /\ last' = SelectOutcome("SelectTransactions",
                           SelectTransactions(mempool, maxBlockSize, iter))
  /\ UNCHANGED <<storageVars, utxos, reorg, calls, mempoolVars, sync, net, mining>>

\* PriorityQueue.SelectTransactionsWithDependencies called on the mempool
CallSelectTransactionsWithDependencies(maxBlockSize, iter) ==
  /\ last' = SelectOutcome("SelectTransactionsWithDependencies",
                           SelectTransactionsWithDependencies(mempool, maxBlockSize, iter))
  /\ UNCHANGED <<storageVars, utxos, reorg, calls, mempoolVars, sync, net, mining>>

\* BlockBuilder.selectTransactions, the selection CreateBlockTemplate makes
CallBuilderSelect(iter) ==
  /\ last' = SelectOutcome("selectTransactions", selectTransactions(mempool, iter).selected)
  /\ UNCHANGED <<storageVars, utxos, reorg, calls, mempoolVars, sync, net, mining>>

NextTemplate ==
  \/ \E h \in TemplateTxs, fee \in TemplateFees, iter \in Orders(DOMAIN mempool.entries) :
       CallAdd(h, fee, iter)
  \/ \E h \in TemplateTxs : CallRemove(h)
  \/ \E size \in {MaxBlockSize, SmallBlockSize}, iter \in Orders(DOMAIN mempool.entries) :
       CallSelectTransactions(size, iter)
  \/ \E size \in {MaxBlockSize, SmallBlockSize}, iter \in Orders(DOMAIN mempool.entries) :
       CallSelectTransactionsWithDependencies(size, iter)
  \/ \E iter \in Orders(DOMAIN mempool.entries) : CallBuilderSelect(iter)

SpecTemplate == InitTemplate /\ [][NextTemplate]_vars

(***************************************************************************)
(* Peers and the miner, each on its own goroutine                          *)
(***************************************************************************)
\* the blocks peers deliver
PeerBlocks == {BlockCatalog[h] : h \in {"G", "A1", "B1"}}

\* a block message arrives from peer p: Node.handleMessage calls
\* SyncManager.HandleBlock on the peer's goroutine
PeerReceive(p, block) ==
  /\ sync.pc[p] = "idle"
  /\ Enter
  /\ sync' = [sync EXCEPT !.pc[p] = "lock", !.block[p] = HashBlockHeader(block.header)]
  /\ UNCHANGED <<storageVars, utxos, reorg, last, mempoolVars, net, mining>>

PeerLock_NoMutex(p) ==
  /\ sync.pc[p] = "lock"
  /\ sync' = [Arrived(sync, sync.block[p]) EXCEPT !.pc[p] = "exists"]
  /\ UNCHANGED <<storageVars, utxos, reorg, last, calls, mempoolVars, net, mining>>

\* sm.mutex.Lock() at the head of HandleBlock, and the removal of the block
\* from the requested list
PeerLock(p) ==
  /\ sync.pc[p] = "lock"
  /\ sync.mutex = "free"
  /\ sync' = [Arrived(sync, sync.block[p]) EXCEPT !.pc[p] = "exists", !.mutex = p]
  /\ UNCHANGED <<storageVars, utxos, reorg, last, calls, mempoolVars, net, mining>>

\* HandleBlock returns: the deferred sm.mutex.Unlock() runs
PeerReturn(p, result) ==
  /\ sync' = [sync EXCEPT !.pc[p] = "idle", !.block[p] = "none", !.height[p] = 0,
                          !.mutex = "free"]
  /\ last' = Outcome("HandleBlock", sync.block[p], result)

\* HandleBlock: "Check if we already have it"
PeerCheckExists(p) ==
  /\ sync.pc[p] = "exists"
  /\ IF HasBlock(sync.block[p])
     THEN PeerReturn(p, "exists")
     ELSE /\ sync' = [sync EXCEPT !.pc[p] = "parent"]
          /\ UNCHANGED last
  /\ UNCHANGED <<storageVars, utxos, reorg, calls, mempoolVars, net, mining>>

\* HandleBlock: "Check if parent exists" and the parent's height
PeerCheckParent(p) ==
  LET prevHash == BlockCatalog[sync.block[p]].header.prevBlockHash
      goon(height) == /\ sync' = [sync EXCEPT !.pc[p] = "save", !.height[p] = height]
                      /\ UNCHANGED last
  IN /\ sync.pc[p] = "parent"
     /\ IF ~HasBlock(prevHash)
        THEN IF prevHash = ZeroHash THEN goon(0) ELSE PeerReturn(p, "orphan")
        ELSE IF ~KnowsHeight(prevHash) THEN PeerReturn(p, "no_parent_height")
        ELSE goon(GetBlockHeight(prevHash) + 1)
     /\ UNCHANGED <<storageVars, utxos, reorg, calls, mempoolVars, net, mining>>

\* HandleBlock: sm.chain.SaveBlock(block, height)
PeerSave(p, saveOk) ==
  /\ sync.pc[p] = "save"
  /\ IF saveOk
     THEN /\ SaveBlock(BlockCatalog[sync.block[p]], sync.height[p])
          /\ sync' = [sync EXCEPT !.pc[p] = "idle", !.block[p] = "none", !.height[p] = 0,
                                  !.mutex = "free", !.saved[sync.block[p]] = @ + 1]
          /\ last' = Outcome("HandleBlock", sync.block[p], "ok")
     ELSE /\ PeerReturn(p, "save_failed")
          /\ UNCHANGED storageVars
  /\ UNCHANGED <<utxos, reorg, calls, mempoolVars, net, mining>>

\* the blocks the miner can come up with on top of the block `prevHash`: a
\* coinbase and nothing else
MinedBlocks(prevHash) ==
  {h \in BlockHashes :
     /\ BlockCatalog[h].header.prevBlockHash = prevHash
     /\ Len(BlockCatalog[h].transactions) = 1
     /\ BlockCatalog[h].header.merkleRoot
          = ComputeMerkleRoot(TxHashList(BlockCatalog[h].transactions))}

\* the miner gives up (or the call returns after the save)
MinerReturn(id, result) ==
  /\ sync' = [sync EXCEPT !.pc[Miner] = "idle", !.block[Miner] = "none", !.height[Miner] = 0]
  /\ last' = Outcome("mineBlock", id, result)

\* Node.mineBlock on the auto-miner's goroutine: n.chain.GetBestBlockHeight()
MinerReadHeight ==
  /\ sync.pc[Miner] = "idle"
  /\ Enter
  /\ IF IsEmpty
     THEN MinerReturn("none", "failed")
     ELSE /\ sync' = [sync EXCEPT !.pc[Miner] = "tip", !.height[Miner] = bestHeight]
          /\ UNCHANGED last
  /\ UNCHANGED <<storageVars, utxos, reorg, mempoolVars, net, mining>>

\* Node.mineBlock: n.chain.GetBestBlock(), the template on top of it and the
\* proof-of-work search
MinerMine ==
  /\ sync.pc[Miner] = "tip"
  /\ IF MinedBlocks(bestHash) = {}
     THEN MinerReturn("none", "failed")
     ELSE /\ \E h \in MinedBlocks(bestHash) :
               sync' = [sync EXCEPT !.pc[Miner] = "save", !.block[Miner] = h]
          /\ UNCHANGED last
  /\ UNCHANGED <<storageVars, utxos, reorg, calls, mempoolVars, net, mining>>

\* Node.mineBlock: n.chain.SaveBlock(block, newHeight)
MinerSave(saveOk) ==
  /\ sync.pc[Miner] = "save"
  /\ IF saveOk
     THEN /\ SaveBlock(BlockCatalog[sync.block[Miner]], sync.height[Miner] + 1)
          /\ MinerReturn(sync.block[Miner], "ok")
     ELSE /\ MinerReturn(sync.block[Miner], "save_failed")
          /\ UNCHANGED storageVars
  /\ UNCHANGED <<utxos, reorg, calls, mempoolVars, net, mining>>

NextPeers ==
  \/ \E p \in Peers, b \in PeerBlocks : PeerReceive(p, b)
  \/ \E p \in Peers : PeerLock(p)
  \/ \E p \in Peers : PeerCheckExists(p)
  \/ \E p \in Peers : PeerCheckParent(p)
  \/ \E p \in Peers, saveOk \in BOOLEAN : PeerSave(p, saveOk)

\* two peers deliver blocks
SpecPeers == Init /\ [][NextPeers]_vars

NextSync ==
  \/ NextPeers
  \/ MinerReadHeight
  \/ MinerMine
  \/ \E saveOk \in BOOLEAN : MinerSave(saveOk)

\* two peers deliver blocks while the auto-miner runs
SpecSync == Init /\ [][NextSync]_vars

(***************************************************************************)
(* Handshake with a peer (Node.handlePeer, Node.processMessage)            *)
(***************************************************************************)
\* most messages the node hands to one peer
MaxWire == 4

\* Peer.SendMessage of each command in turn: the command joins the peer's
\* Send channel, which the write loop empties in order
SendMessages(nt, p, cmds) == [nt EXCEPT !.wire[p] = @ \o cmds]

\* Node.handlePeer up to handleMessages: the peer joins the table, its loops
\* start, and on an outbound connection Handshake sends the node's version
HandlePeerStart(p, inbound) ==
  /\ p \notin net.peers
  /\ net' = SendMessages([net EXCEPT !.peers = @ \cup {p}, !.inbound[p] = inbound],
                         p, IF inbound THEN <<>> ELSE <<"version">>)
  /\ UNCHANGED <<storageVars, utxos, reorg, last, calls, mempoolVars, sync, mining>>

\* Node.handleVersion: record the version, send verack, and on an inbound
\* connection send the node's own version
handleVersion(nt, p) ==
  SendMessages([nt EXCEPT !.version = @ \cup {p}], p,
               IF nt.inbound[p] THEN <<"verack", "version">> ELSE <<"verack">>)

\* Node.processMessage, case CmdVerAck: mark the peer and SyncManager.StartSync,
\* which sends getblocks with the node's locator
processVerAck(nt, p) ==
  SendMessages([nt EXCEPT !.verAckReceived = @ \cup {p}], p, <<"getblocks">>)

\* Node.processMessage for a version or a verack message of peer p
ProcessMessage(p, cmd) ==
  /\ p \in net.peers
  /\ Len(net.wire[p]) + 2 <= MaxWire
  /\ net' = IF cmd = "version" THEN handleVersion(net, p) ELSE processVerAck(net, p)
  /\ last' = Outcome("processMessage", p, cmd)
  /\ UNCHANGED <<storageVars, utxos, reorg, calls, mempoolVars, sync, mining>>

NextHandshake ==
  \/ \E p \in NetPeers, inbound \in BOOLEAN : HandlePeerStart(p, inbound)
  \/ \E p \in NetPeers, cmd \in {"version", "verack"} : ProcessMessage(p, cmd)

\* peers connect and send version and verack in any order
SpecHandshake == Init /\ [][NextHandshake]_vars

(***************************************************************************)
(* Life of a connection: the goroutines of Peer and Node                   *)
(***************************************************************************)
\* capacity of Peer.Send and of Peer.Receive (100 in the code), scaled down
ChanCap == 1

\* a step of the P2P node changes nothing else; after a panic nothing runs
NetStep ==
  /\ ~net.panicked
  /\ UNCHANGED <<storageVars, utxos, reorg, last, calls, mempoolVars, sync, mining>>

\* Node.Start: the accept loop starts (no seed nodes)
NodeStart ==
  /\ NetStep
  /\ net.accept = "none"
  /\ net' = [net EXCEPT !.accept = "select"]

\* acceptLoop: select { case <-n.quit: return; default: listener.Accept() }
AcceptSelect ==
  /\ NetStep
  /\ net.accept = "select"
  /\ net' = [net EXCEPT !.accept = IF net.quit THEN "done" ELSE "accept"]

\* listener.Accept returns a connection of peer p: go n.handlePeer(conn, true)
AcceptConn(p) ==
  /\ NetStep
  /\ net.accept = "accept"
  /\ net.hp[p] = "none"
  /\ net' = [net EXCEPT !.accept = "select", !.hp[p] = "register", !.inbound[p] = TRUE]

\* listener.Accept returns an error: continue
AcceptError ==
  /\ NetStep
  /\ net.accept = "accept"
  /\ net' = [net EXCEPT !.accept = "select"]

\* Node.Connect dials peer p: n.handlePeer(conn, false)
Connect(p) ==
  /\ NetStep
  /\ net.hp[p] = "none"
  /\ net' = [net EXCEPT !.hp[p] = "register", !.inbound[p] = FALSE]

\* handlePeer: the peer joins the table under peerLock
HPRegister(p) ==
  /\ NetStep
  /\ net.hp[p] = "register"
  /\ net.peerLock = "free"
  /\ net' = [net EXCEPT !.peers = @ \cup {p}, !.hp[p] = "start"]

\* handlePeer: p.Start() starts the two loops, and p.Handshake sends an
\* outbound peer the node's version (SendMessage: select on p.Send and p.Quit)
HPStart(p) ==
  /\ NetStep
  /\ net.hp[p] = "start"
  /\ \E n \in (IF net.inbound[p] THEN {0}
                ELSE IF p \in net.quitClosed THEN {0, 1} ELSE {1}) :
       net' = [net EXCEPT !.rl[p] = "select", !.wl[p] = "select",
                          !.send[p] = n, !.hp[p] = "messages"]

\* handleMessages: select on p.Receive, p.Quit and n.quit; a received message
\* is processed and may be answered
HPMessages(p) ==
  /\ NetStep
  /\ net.hp[p] = "messages"
  /\ \/ /\ net.recv[p] > 0
        /\ \E to \in {"messages", "send"} :
             net' = [net EXCEPT !.recv[p] = @ - 1, !.hp[p] = to]
     \/ /\ p \in net.quitClosed \/ net.quit
        /\ net' = [net EXCEPT !.hp[p] = "cleanup"]

\* Peer.SendMessage inside a handler: select on p.Send <- msg and p.Quit
HPSend(p) ==
  /\ NetStep
  /\ net.hp[p] = "send"
  /\ \/ /\ net.send[p] < ChanCap
        /\ net' = [net EXCEPT !.send[p] = @ + 1, !.hp[p] = "messages"]
     \/ /\ p \in net.quitClosed
        /\ net' = [net EXCEPT !.hp[p] = "messages"]

\* handlePeer after handleMessages: the peer leaves the table under peerLock
HPCleanup(p) ==
  /\ NetStep
  /\ net.hp[p] = "cleanup"
  /\ net.peerLock = "free"
  /\ net' = [net EXCEPT !.peers = @ \ {p}, !.hp[p] = "stop"]

\* close(p.Quit) in Peer.Stop: closing a closed channel panics
CloseQuit(nt, p) ==
  IF p \in nt.quitClosed THEN [nt EXCEPT !.panicked = TRUE]
  ELSE [nt EXCEPT !.quitClosed = @ \cup {p}]

\* Peer.Stop called by handlePeer: close(p.Quit)
HPStopQuit(p) ==
  /\ NetStep
  /\ net.hp[p] = "stop"
  /\ net' = [CloseQuit(net, p) EXCEPT !.hp[p] = "close"]

\* Peer.Stop called by handlePeer: p.Conn.Close()
HPStopConn(p) ==
  /\ NetStep
  /\ net.hp[p] = "close"
  /\ net' = [net EXCEPT !.connClosed = @ \cup {p}, !.hp[p] = "wait"]

\* Peer.Stop called by handlePeer: p.wg.Wait(), then handlePeer returns
HPStopWait(p) ==
  /\ NetStep
  /\ net.hp[p] = "wait"
  /\ net.rl[p] \in {"none", "done"} /\ net.wl[p] \in {"none", "done"}
  /\ net' = [net EXCEPT !.hp[p] = "done"]

HandlePeer(p) ==
  \/ HPRegister(p) \/ HPStart(p) \/ HPMessages(p) \/ HPSend(p) \/ HPCleanup(p)
  \/ HPStopQuit(p) \/ HPStopConn(p) \/ HPStopWait(p)

\* readLoop: select { case <-p.Quit: return; default: read }
RLSelect(p) ==
  /\ NetStep
  /\ net.rl[p] = "select"
  /\ net' = [net EXCEPT !.rl[p] = IF p \in net.quitClosed THEN "done" ELSE "read"]

\* readLoop: protocol.Deserialize returns a message, or an error (decode
\* error, EOF, the read deadline, a closed socket) and the loop returns
RLRead(p) ==
  /\ NetStep
  /\ net.rl[p] = "read"
  /\ \E to \in (IF p \in net.connClosed THEN {"done"} ELSE {"hand", "done"}) :
       net' = [net EXCEPT !.rl[p] = to]

\* readLoop: select on p.Receive <- msg and p.Quit
RLHand(p) ==
  /\ NetStep
  /\ net.rl[p] = "hand"
  /\ \/ /\ net.recv[p] < ChanCap
        /\ net' = [net EXCEPT !.recv[p] = @ + 1, !.rl[p] = "select"]
     \/ /\ p \in net.quitClosed
        /\ net' = [net EXCEPT !.rl[p] = "done"]

readLoop(p) == RLSelect(p) \/ RLRead(p) \/ RLHand(p)

\* writeLoop: select on p.Send and p.Quit
WLSelect(p) ==
  /\ NetStep
  /\ net.wl[p] = "select"
  /\ \/ /\ net.send[p] > 0
        /\ net' = [net EXCEPT !.send[p] = @ - 1, !.wl[p] = "write"]
     \/ /\ p \in net.quitClosed
        /\ net' = [net EXCEPT !.wl[p] = "done"]

\* writeLoop: msg.Serialize fails and the loop continues, or p.Conn.Write
\* returns, with an error (the write deadline, a broken or closed socket) and
\* the loop returns, or without
WLWrite(p) ==
  /\ NetStep
  /\ net.wl[p] = "write"
  /\ \E to \in {"select", "done"} :
       net' = [net EXCEPT !.wl[p] = to]

writeLoop(p) == WLSelect(p) \/ WLWrite(p)

\* Node.Stop is called: close(n.quit)
StopCall ==
  /\ NetStep
  /\ net.accept # "none"
  /\ net.stop = "idle"
  /\ net' = [net EXCEPT !.quit = TRUE, !.stop = "lock"]

\* Node.Stop: n.peerLock.Lock() and the range over n.peers
StopLock ==
  /\ NetStep
  /\ net.stop = "lock"
  /\ net.peerLock = "free"
  /\ net' = [net EXCEPT !.peerLock = "stop", !.todo = net.peers, !.stop = "next"]

\* Node.Stop: the next peer of the range, or n.peerLock.Unlock() after the last
StopNext ==
  /\ NetStep
  /\ net.stop = "next"
  /\ IF net.todo = {}
     THEN net' = [net EXCEPT !.peerLock = "free", !.cur = "none", !.stop = "wgwait"]
     ELSE \E p \in net.todo : net' = [net EXCEPT !.cur = p, !.stop = "quit"]

\* Peer.Stop called by Node.Stop: close(p.Quit)
StopPeerQuit ==
  /\ NetStep
  /\ net.stop = "quit"
  /\ net' = [CloseQuit(net, net.cur) EXCEPT !.stop = "conn"]

\* Peer.Stop called by Node.Stop: p.Conn.Close()
StopPeerConn ==
  /\ NetStep
  /\ net.stop = "conn"
  /\ net' = [net EXCEPT !.connClosed = @ \cup {net.cur}, !.stop = "peerwait"]

\* Peer.Stop called by Node.Stop: p.wg.Wait()
StopPeerWait ==
  /\ NetStep
  /\ net.stop = "peerwait"
  /\ net.rl[net.cur] \in {"none", "done"} /\ net.wl[net.cur] \in {"none", "done"}
  /\ net' = [net EXCEPT !.todo = @ \ {net.cur}, !.stop = "next"]

\* Node.Stop: n.wg.Wait() for the accept loop, then Stop returns
StopWait ==
  /\ NetStep
  /\ net.stop = "wgwait"
  /\ net.accept = "done"
  /\ net' = [net EXCEPT !.stop = "returned"]

\* Node.Stop after close(n.quit)
Stop == StopLock \/ StopNext \/ StopPeerQuit \/ StopPeerConn \/ StopPeerWait \/ StopWait

\* the peers that connect while the life of a connection is followed
LifePeers == {"peer1"}

NextLife ==
  \/ NodeStart
  \/ AcceptSelect
  \/ \E p \in LifePeers : AcceptConn(p)
  \/ AcceptError
  \/ \E p \in LifePeers : Connect(p)
  \/ \E p \in LifePeers : HandlePeer(p)
  \/ \E p \in LifePeers : readLoop(p)
  \/ \E p \in LifePeers : writeLoop(p)
  \/ StopCall
  \/ Stop

\* every goroutine that can take a step takes one in the end; nothing says
\* that a peer connects or that Stop is called
FairSpecLife ==
  /\ Init
  /\ [][NextLife]_vars
  /\ WF_vars(AcceptSelect)
  /\ WF_vars(Stop)
  /\ \A p \in LifePeers :
       WF_vars(HandlePeer(p)) /\ WF_vars(readLoop(p)) /\ WF_vars(writeLoop(p))

(***************************************************************************)
(* Proof-of-work search (mining.Miner)                                     *)
(***************************************************************************)
\* width of the nonce in bits: the uint32 of the header, scaled down
NonceBits == 2

\* the nonces: 0 .. 2^NonceBits - 1
NonceSpace == Pow2(NonceBits)

\* the leading zero bytes a header hash can have, and the targets asked for;
\* the node mines with a target of one zero byte
ZeroCounts == {0, 1}

TargetZeros == {0, 1, 2}

\* the templates handed to MineBlock: a template is known by the leading
\* zero bytes of the hash of its header under each nonce
Templates == [0..(NonceSpace - 1) -> ZeroCounts]

checkProofOfWork_Strict(leadingZeros, targetZeros) == leadingZeros > targetZeros

\* Miner.checkProofOfWork on a hash with that many leading zero bytes
checkProofOfWork(leadingZeros, targetZeros) == leadingZeros >= targetZeros

\* the attempts after the cancellation, the one being made included
SinceCancel(mi) == IF mi.cancelled THEN mi.sinceCancel + 1 ELSE mi.sinceCancel

\* Miner.MineBlock(template, targetZeros) is called: stats reset, nonce 0
CallMineBlock(template, targetZeros) ==
  /\ mining.pc = "idle"
  /\ mining' = [pc |-> "loop", template |-> template, targetZeros |-> targetZeros,
                nonce |-> 0, attempts |-> 0,
                cancelled |-> mining.cancelled, sinceCancel |-> 0]
  /\ UNCHANGED <<storageVars, utxos, reorg, last, calls, mempoolVars, sync, net>>

\* one round of the loop of MineBlock: build the block with the nonce, hash
\* its header, count the attempt, return the block if the hash meets the
\* target, else step the nonce and fail when it wraps to 0; sinceCancel
\* counts the attempts made after the context was cancelled
MineTry ==
  /\ mining.pc = "loop"
  /\ IF checkProofOfWork(mining.template[mining.nonce], mining.targetZeros)
     THEN mining' = [mining EXCEPT !.pc = "found", !.attempts = @ + 1,
                                   !.sinceCancel = SinceCancel(mining)]
     ELSE mining' = [mining EXCEPT
                       !.attempts = @ + 1,
                       !.sinceCancel = SinceCancel(mining),
                       !.nonce = (@ + 1) % NonceSpace,
                       !.pc = IF (mining.nonce + 1) % NonceSpace = 0
                              THEN "failed" ELSE "loop"]
  /\ UNCHANGED <<storageVars, utxos, reorg, last, calls, mempoolVars, sync, net>>

NextMine ==
  \/ \E template \in Templates, targetZeros \in TargetZeros :
       CallMineBlock(template, targetZeros)
  \/ MineTry

\* the loop keeps running until it returns
FairSpecMine == Init /\ [][NextMine]_vars /\ WF_vars(MineTry)

\* Node.Stop of the command: n.cancel() closes ctx.Done
Cancel ==
  /\ ~mining.cancelled
  /\ mining' = [mining EXCEPT !.cancelled = TRUE]
  /\ UNCHANGED <<storageVars, utxos, reorg, last, calls, mempoolVars, sync, net>>

\* Node.autoMineLoop at its select: the ticker fired, mineBlock is called and
\* it calls MineBlock with a target of one zero byte; the select takes any
\* case that is ready, so the ticker's case stays open after the cancellation
AutoMineTick(template) ==
  /\ mining.pc = "idle"
  /\ CallMineBlock(template, 1)

\* Node.autoMineLoop at its select: ctx.Done is closed, the loop returns
AutoMineDone ==
  /\ mining.pc = "idle"
  /\ mining.cancelled
  /\ mining' = [mining EXCEPT !.pc = "stopped"]
  /\ UNCHANGED <<storageVars, utxos, reorg, last, calls, mempoolVars, sync, net>>

\* MineBlock returned, with a block or with the overflow error; mineBlock
\* returns and autoMineLoop is back at its select
AutoMineReturn ==
  /\ mining.pc \in {"found", "failed"}
  /\ mining' = [pc |-> "idle", cancelled |-> mining.cancelled]
  /\ UNCHANGED <<storageVars, utxos, reorg, last, calls, mempoolVars, sync, net>>

NextAutoMine ==
  \/ \E template \in Templates : AutoMineTick(template)
  \/ MineTry
  \/ AutoMineReturn
  \/ AutoMineDone
  \/ Cancel

\* the auto-miner runs and the node is stopped at some time
SpecAutoMine == Init /\ [][NextAutoMine]_vars

(***************************************************************************)
(* Inventory announcements (SyncManager.HandleInv)                         *)
(***************************************************************************)
\* longest inv message a peer sends
MaxInv == 2

InvVect(type, hash) == [type |-> type, hash |-> hash]

\* what the peers announce: three blocks and a transaction
InvVects == {InvVect("block", h) : h \in {"G", "A1", "B1"}} \cup {InvVect("tx", "t1")}

RECURSIVE InvLoop_NoRequestedCheck(_, _, _, _, _)
InvLoop_NoRequestedCheck(inv, i, getData, requested, address) ==
  IF i > Len(inv) THEN [getData |-> getData, requestedBlocks |-> requested]
  ELSE IF inv[i].type = "block" /\ ~HasBlock(inv[i].hash)
  THEN InvLoop_NoRequestedCheck(inv, i + 1, Append(getData, inv[i]),
                                (inv[i].hash :> address) @@ requested, address)
  ELSE IF inv[i].type = "tx"
  THEN InvLoop_NoRequestedCheck(inv, i + 1, Append(getData, inv[i]), requested, address)
  ELSE InvLoop_NoRequestedCheck(inv, i + 1, getData, requested, address)

RECURSIVE InvLoop(_, _, _, _, _)
\* the loop of HandleInv over the announced vectors from the i-th on
InvLoop(inv, i, getData, requested, address) ==
  IF i > Len(inv) THEN [getData |-> getData, requestedBlocks |-> requested]
  ELSE IF inv[i].type = "block"
  THEN IF ~HasBlock(inv[i].hash) /\ inv[i].hash \notin DOMAIN requested
       THEN InvLoop(inv, i + 1, Append(getData, inv[i]),
                    (inv[i].hash :> address) @@ requested, address)
       ELSE InvLoop(inv, i + 1, getData, requested, address)
  ELSE IF inv[i].type = "tx"
  THEN InvLoop(inv, i + 1, Append(getData, inv[i]), requested, address)
  ELSE InvLoop(inv, i + 1, getData, requested, address)

\* the times each block is named in a getdata
TimesAsked(getData, h) ==
  Len(SelectSeq(getData, LAMBDA v : v.type = "block" /\ v.hash = h))

\* SyncManager.HandleInv for an inv message of peer p, under sm.mutex from
\* its first line to its return; `sent` lists the getdata messages handed to
\* the peer
HandleInv(p, inv) ==
  LET r == InvLoop(inv, 1, <<>>, sync.requestedBlocks, p)
  IN /\ sync.mutex = "free"
     /\ sync' = [sync EXCEPT
                   !.requestedBlocks = r.requestedBlocks,
                   !.asked = [h \in BlockHashes |-> @[h] + TimesAsked(r.getData, h)]]
     /\ last' = [op |-> "HandleInv", id |-> p, result |-> "ok",
                 sent |-> IF Len(r.getData) > 0 THEN <<r.getData>> ELSE <<>>]
     /\ UNCHANGED <<storageVars, utxos, reorg, calls, mempoolVars, net, mining>>

NextInv ==
  \/ \E p \in Peers, inv \in SeqsUpTo(InvVects, MaxInv) : HandleInv(p, inv)
  \/ \E b \in PeerBlocks, saveOk \in BOOLEAN : HandleBlock(b, saveOk)

\* peers announce blocks and deliver them
SpecInv == Init /\ [][NextInv]_vars

\* the peers go on announcing, and the node handles every inv it receives;
\* nothing says that a peer delivers a block it was asked for
FairSpecInv ==
  /\ Init
  /\ [][NextInv]_vars
  /\ WF_vars(\E p \in Peers, inv \in SeqsUpTo(InvVects, MaxInv) : HandleInv(p, inv))

(***************************************************************************)
(* Properties                                                              *)
(*                                                                         *)
(* A step connects a block after validation when it is a successful        *)
(* AcceptBlock, a successful AddBlock on a non-empty chain, or a successful *)
(* iteration of connectBlocks.  The block is then the new tip, and it was   *)
(* validated against the UTXO set of the state the step starts in.         *)
(***************************************************************************)

\* C1: for every block connected at height h, the sum of the values of all
\* coinbase outputs is at most block_subsidy(h) plus the fees of the block's
\* non-coinbase transactions.
C1_CoinbaseTotalWithinSubsidyAndFees ==
  [][LET viaCall == /\ calls' = calls + 1
                    /\ last'.result = "ok"
                    /\ \/ last'.op = "AcceptBlock"
                       \/ last'.op = "AddBlock" /\ ~IsEmpty
         viaReorg == reorg.pc = "connect" /\ reorg'.pc # "idle"
         block == blockStore'[bestHash']
         coinbase == block.transactions[1]
         total == SeqSum([i \in 1..Len(coinbase.outputs) |-> coinbase.outputs[i].value])
         fees == SeqSum([i \in 1..(Len(block.transactions) - 1) |->
                           validateTransactionInputs(utxos, block.transactions[i + 1]).fee])
     IN (viaCall \/ viaReorg) => total <= GetBlockReward(bestHeight') + fees]_vars

\* C2: a coinbase output created at height h is never consumed before height
\* h + 100: no block connected at a height s < h + 100 holds a non-coinbase
\* transaction that spends it.
C2_CoinbaseSpentOnlyWhenMature ==
  [][LET viaCall == /\ calls' = calls + 1
                    /\ last'.result = "ok"
                    /\ \/ last'.op = "AcceptBlock"
                       \/ last'.op = "AddBlock" /\ ~IsEmpty
         viaReorg == reorg.pc = "connect" /\ reorg'.pc # "idle"
         block == blockStore'[bestHash']
         spent(i) == {NewOutPoint(block.transactions[i].inputs[j].prevTxHash,
                                  block.transactions[i].inputs[j].outputIndex) :
                        j \in 1..Len(block.transactions[i].inputs)}
     IN (viaCall \/ viaReorg) =>
          \A i \in 2..Len(block.transactions) : \A o \in spent(i) \cap DOMAIN utxos :
            IsMature(utxos[o], bestHeight')]_vars

\* C3: a block passes validation only if, for every input of every
\* non-coinbase transaction, the script VM succeeds on sig_script followed by
\* the spent output's pub_key_script.
C3_EveryInputScriptSucceeds ==
  [][LET viaCall == /\ calls' = calls + 1
                    /\ last'.result = "ok"
                    /\ \/ last'.op = "AcceptBlock"
                       \/ last'.op = "AddBlock" /\ ~IsEmpty
         viaReorg == reorg.pc = "connect" /\ reorg'.pc # "idle"
         block == blockStore'[bestHash']
         input(i, j) == block.transactions[i].inputs[j]
         outpoint(i, j) == NewOutPoint(input(i, j).prevTxHash, input(i, j).outputIndex)
     IN (viaCall \/ viaReorg) =>
          \A i \in 2..Len(block.transactions) : \A j \in 1..Len(block.transactions[i].inputs) :
            outpoint(i, j) \in DOMAIN utxos =>
              Execute(input(i, j).signatureScript \o utxos[outpoint(i, j)].output.pubKeyScript)]_vars

\* C4: a block received from a peer that violates a consensus rule (it does
\* not pass ValidateBlock as the next block of the chain) is rejected: the
\* sync manager does not persist it and it does not become the chain tip.
C4_SyncRejectsInvalidBlocks ==
  [][LET hash == last'.id
         height == IF IsEmpty THEN 0 ELSE bestHeight + 1
     IN (/\ calls' = calls + 1
         /\ last'.op = "HandleBlock"
         /\ ~HasBlock(hash)
         /\ ValidateBlock(utxos, BlockCatalog[hash], height, bestHash) # "ok")
        => hash \notin DOMAIN blockStore' /\ bestHash' # hash]_vars

\* C5: ApplyTransaction is all-or-nothing: when a referenced outpoint is
\* absent the call fails and the set is exactly as it was before the call.
C5_ApplyTransactionAllOrNothing ==
  [][(last'.op = "ApplyTransaction" /\ last'.result = "failed") => utxos' = utxos]_vars

\* C6: when block acceptance fails after validation, during UTXO application
\* or at the storage write, the UTXO set and the chain tip are the same as
\* before the call.
C6_FailedAcceptanceLeavesNoPartialState ==
  [][(/\ calls' = calls + 1
      /\ last'.op \in {"AddBlock", "AcceptBlock"}
      /\ last'.result \in {"apply_failed", "save_failed"})
     => /\ utxos' = utxos
        /\ bestHash' = bestHash
        /\ bestHeight' = bestHeight]_vars

\* C7: on a set U on which apply_block(b) succeeds, apply_block(b) followed by
\* revert_block(b) yields U again, including the outputs b consumed.
\* Acceptance runs exactly this pair when the storage write fails after a
\* successful application; b creates no outpoint that U already holds.
C7_ApplyThenRevertRestoresSet ==
  [][LET b == BlockCatalog[last'.id]
         height == IF IsEmpty THEN 0 ELSE bestHeight + 1
         outs(tx) == {NewOutPoint(HashTransaction(tx), j) : j \in 0..(Len(tx.outputs) - 1)}
         created == UNION {outs(b.transactions[i]) : i \in 1..Len(b.transactions)}
     IN (/\ calls' = calls + 1
         /\ last'.result = "save_failed"
         /\ \/ last'.op = "AcceptBlock"
            \/ last'.op = "AddBlock" /\ ~IsEmpty
         /\ created \cap DOMAIN utxos = {}
         /\ ApplyBlock(utxos, b, height).ok
         /\ utxos' = RevertBlock(ApplyBlock(utxos, b, height).utxos, b))
        => utxos' = utxos]_vars

\* C8: after a successful reorg from a chain whose UTXO set is the replay of
\* its blocks to a heavier chain that forks below its tip, the active tip is
\* the new chain's tip and the UTXO set equals the replay of every block from
\* genesis to that tip on an empty set.
C8_ReorgEndsAtReplayOfNewChain ==
  [][LET before == RebuildUTXOSet(blockStore, reorg.preHeightIndex, reorg.preBestHeight)
         after == RebuildUTXOSet(blockStore', heightIndex', bestHeight')
     IN (/\ reorg.pc = "return"
         /\ reorg'.pc = "idle"
         /\ reorg.forkHeight < reorg.preBestHeight
         /\ before.ok
         /\ before.utxos = reorg.preUtxos)
        => /\ bestHash' = reorg.tip
           /\ after.ok
           /\ utxos' = after.utxos]_vars

\* C9: if a block of the proposed chain fails validation, application or
\* saving, the old chain is restored: the chain tip, the height index and the
\* UTXO set are those of before handle_reorg was called.
C9_FailedReorgRestoresOldChain ==
  [][(reorg.pc = "connect" /\ reorg'.pc = "idle")
     => /\ bestHash' = reorg.preBestHash
        /\ bestHeight' = reorg.preBestHeight
        /\ heightIndex' = reorg.preHeightIndex
        /\ utxos' = reorg.preUtxos]_vars

\* C10: while handle_reorg disconnects and connects blocks the stored
\* (best_hash, best_height) is still the pre-reorg tip; it changes only after
\* every block of the new chain has been connected.
C10_TipUnchangedDuringReorg ==
  reorg.pc \in {"disconnect", "connect"}
    => bestHash = reorg.preBestHash /\ bestHeight = reorg.preBestHeight

RECURSIVE WorkFromGenesis(_, _)
\* the work of the chain that ends in the block `hash`, following the parent
\* links of the given blocks down to the chain's first block
WorkFromGenesis(blocks, hash) ==
  IF hash \notin DOMAIN blocks THEN 0
  ELSE WorkFromGenesis(blocks, blocks[hash].header.prevBlockHash)
         + calculateBlockWork(blocks[hash].header.bits)

\* the stored blocks together with the proposed ones
WithProposed(newBlocks) ==
  [h \in {HashBlockHeader(newBlocks[i].header) : i \in 1..Len(newBlocks)} |-> BlockCatalog[h]]
    @@ blockStore

ProposedWork(newBlocks) ==
  WorkFromGenesis(WithProposed(newBlocks), HashBlockHeader(newBlocks[Len(newBlocks)].header))

CoinValue == 100000000

\* the fee a catalogue transaction pays, in coins: the outputs it spends less
\* the outputs it creates (0 when an input names no catalogue output)
OwnFee(h) ==
  LET tx == TxCatalog[h]
      known(in) == /\ in.prevTxHash \in TxHashes
                   /\ in.outputIndex >= 0
                   /\ in.outputIndex < Len(TxCatalog[in.prevTxHash].outputs)
      spent(in) == TxCatalog[in.prevTxHash].outputs[in.outputIndex + 1].value
  IN IF \A i \in 1..Len(tx.inputs) : known(tx.inputs[i])
     THEN SeqSum([i \in 1..Len(tx.inputs) |-> spent(tx.inputs[i])])
            - SeqSum([i \in 1..Len(tx.outputs) |-> tx.outputs[i].value])
     ELSE 0

\* C12: when a reorganisation ends, every non-coinbase transaction of a
\* disconnected block that no newly connected block holds is in the mempool,
\* unless the mempool would turn it away when offered with the fee it pays.
C12_OrphanedTransactionsReturnToMempool ==
  [][(reorg.pc = "return" /\ reorg'.pc = "idle") =>
       \A h \in SeqRange(OrphanedTransactions(reorg.orphaned, reorg.newBlocks)) :
         Add(mempool, h, OwnFee(h) * CoinValue, bestHeight, now, MapOrder(mempool)).err = ""
           => h \in DOMAIN mempool'.entries]_vars

\* C13: when AcceptBlock is given the block its previous, successful call was
\* given, it finds the block stored and returns without an error, and the
\* chain tip, the height index and the UTXO set stay as the first call left
\* them.
C13_AcceptBlockTwiceIsNoOp ==
  [][(/\ last.op = "AcceptBlock"
      /\ last.result = "ok"
      /\ calls' = calls + 1
      /\ reorg'.pc = "idle"
      /\ last'.op = "AcceptBlock"
      /\ last'.id = last.id)
       => /\ last'.result \notin {"invalid", "apply_failed", "save_failed"}
          /\ UNCHANGED <<storageVars, utxos>>]_vars

\* C13 (as the code has it): when AcceptBlock is given the block its
\* previous, successful call was given, the call is turned away by block
\* validation, and the stored chain, the UTXO set and the mempool stay as the
\* first call left them.
C13_SecondAcceptRejectedWithoutEffect ==
  [][(/\ last.op = "AcceptBlock"
      /\ last.result = "ok"
      /\ calls' = calls + 1
      /\ reorg'.pc = "idle"
      /\ last'.op = "AcceptBlock"
      /\ last'.id = last.id)
       => /\ last'.result = "invalid"
          /\ UNCHANGED <<storageVars, utxos, mempool>>]_vars

\* the stored tip was submitted to AcceptBlock again
C13_Witness ==
  /\ calls = 2
  /\ last.op = "AcceptBlock"
  /\ last.result = "invalid"
  /\ last.id = bestHash
  /\ bestHash \in DOMAIN blockStore

AddStep == last'.op = "Add" /\ now' = now

\* the entries of m that spend an output the transaction h spends
Conflicts(m, h) ==
  {m.spentOutputs[o] : o \in InputOutPoints(TxCatalog[h]) \cap DOMAIN m.spentOutputs}

\* the three-rule replacement test of the new fee against an entry
PassesReplacementTest(old, newFee, newSize) ==
  /\ newFee > old.fee
  /\ GoDiv(newFee, newSize) > old.feeRate
  /\ newFee - old.fee >= minFeeRate * old.size

\* C17: a transaction that spends an output some mempool entry spends is
\* admitted only if it signals replaceability (an input with sequence below
\* 0xFFFFFFFE) and passes the three-rule test against the entries it
\* conflicts with; one that does not signal is never admitted.
C17_ReplacementOnlyWhenSignaledAndPaid ==
  [][(/\ AddStep
      /\ last'.result = "ok"
      /\ Conflicts(mempool, last'.id) # {})
       => /\ IsRBFSignaled(TxCatalog[last'.id])
          /\ \A c \in Conflicts(mempool, last'.id) :
               PassesReplacementTest(mempool.entries[c], last'.fee,
                                     CalculateTransactionSize(TxCatalog[last'.id]))]_vars

\* C18: when a new transaction conflicts with mempool entries and one of
\* them fails the replacement test, Add rejects the transaction and removes
\* nothing: the mempool is what it was.
C18_FailedReplacementRemovesNothing ==
  [][(/\ AddStep
      /\ last'.id \notin DOMAIN mempool.entries
      /\ \E c \in Conflicts(mempool, last'.id) :
           ~PassesReplacementTest(mempool.entries[c], last'.fee,
                                  CalculateTransactionSize(TxCatalog[last'.id])))
       => /\ last'.result # "ok"
          /\ mempool' = mempool]_vars

RECURSIVE Reach(_, _, _)
\* the entries reached from the set `front` along the child lists of m
Reach(m, front, seen) ==
  IF front \subseteq seen THEN seen
  ELSE LET new == front \ seen
           kids == UNION {SeqRange(m.entries[h].children) : h \in new \cap DOMAIN m.entries}
       IN Reach(m, kids, seen \cup new)

\* an entry together with its descendants
WithDescendants(m, h) == Reach(m, {h}, {})

SizeOf(m, hs) ==
  LET RECURSIVE Sum(_)
      Sum(S) == IF S = {} THEN 0
                ELSE LET x == CHOOSE y \in S : TRUE IN m.entries[x].size + Sum(S \ {x})
  IN Sum(hs)

\* C19: when a transaction without conflicts is admitted to a mempool it does
\* not fit in, the entries evicted for it are the ones with the lowest fee
\* rates (with their descendants), and eviction stops as soon as the
\* transaction fits: it would not fit had the last evicted entry and its
\* descendants stayed.
C19_EvictionStopsWhenTransactionFits ==
  [][LET size == CalculateTransactionSize(TxCatalog[last'.id])
         evicted == DOMAIN mempool.entries \ DOMAIN mempool'.entries
         roots == {e \in evicted :
                     \A k \in DOMAIN mempool.entries \ evicted :
                       mempool.entries[e].feeRate <= mempool.entries[k].feeRate}
     IN (/\ AddStep
         /\ last'.result = "ok"
         /\ last'.id \notin DOMAIN mempool.entries
         /\ Conflicts(mempool, last'.id) = {}
         /\ mempool.currentSize + size > maxSize)
          => /\ evicted = UNION {WithDescendants(mempool, e) : e \in roots}
             /\ \E e \in roots :
                  mempool'.currentSize
                    + SizeOf(mempool, WithDescendants(mempool, e)) > maxSize]_vars

\* the mempool entries whose outputs the entry h spends
ParentsInMempool(m, h) ==
  {TxCatalog[h].inputs[i].prevTxHash : i \in 1..Len(TxCatalog[h].inputs)} \cap DOMAIN m.entries

\* C20: whatever calls were made on the mempool, every entry's ancestor fee
\* is its own fee plus the ancestor fees of its parents in the mempool, and
\* its ancestor size is its own size plus their ancestor sizes.
C20_AncestorMetricsCoverParents ==
  \A h \in DOMAIN mempool.entries :
    LET e == mempool.entries[h]
        ps == ParentsInMempool(mempool, h)
        RECURSIVE SumFee(_)
        SumFee(S) == IF S = {} THEN 0
                     ELSE LET x == CHOOSE y \in S : TRUE
                          IN mempool.entries[x].ancestorFee + SumFee(S \ {x})
        RECURSIVE SumSize(_)
        SumSize(S) == IF S = {} THEN 0
                      ELSE LET x == CHOOSE y \in S : TRUE
                           IN mempool.entries[x].ancestorSize + SumSize(S \ {x})
    IN /\ e.ancestorFee = e.fee + SumFee(ps)
       /\ e.ancestorSize = e.size + SumSize(ps)

\* the goroutines between their first read of the chain and their return
InPhase(sy) ==
  {p \in Peers : sy.pc[p] \in {"exists", "parent", "save"}}
    \cup (IF sy.pc[Miner] \in {"tip", "save"} THEN {Miner} ELSE {})

\* C14: at most one goroutine (peer handler or miner) is between reading the
\* chain and saving its block at any time, and when the miner saves the block
\* it built on a tip, that tip is still the chain's tip: no other block was
\* saved on it in the meantime.
C14_BlockApplicationSerialized ==
  [][/\ Cardinality(InPhase(sync')) <= 1
     /\ (/\ sync.pc[Miner] = "save"
         /\ sync'.pc[Miner] = "idle"
         /\ last'.result = "ok")
          => bestHash = BlockCatalog[sync.block[Miner]].header.prevBlockHash]_vars

RECURSIVE AncestorsInMempool(_, _)
\* the entries of m whose outputs the entry h spends, directly or through
\* other entries
AncestorsInMempool(m, h) ==
  LET ps == ParentsInMempool(m, h)
  IN ps \cup UNION {AncestorsInMempool(m, p) : p \in ps}

\* C21: after Remove(txid) returns, neither txid nor any entry that had
\* txid among its ancestors in the mempool is in the mempool.
C21_RemoveCascadesToDescendants ==
  [][(last'.op = "Remove" /\ last'.result = "ok")
       => \A h \in DOMAIN mempool.entries :
            (h = last'.id \/ last'.id \in AncestorsInMempool(mempool, h))
              => h \notin DOMAIN mempool'.entries]_vars

\* C22: in every list block-template selection returns, the parents in the
\* mempool of each selected transaction are selected too and stand earlier
\* in the list.
C22_SelectedAfterParents ==
  [][last'.op \in {"SelectTransactions", "SelectTransactionsWithDependencies",
                   "selectTransactions"}
       => LET selected == last'.selected
          IN \A i \in 1..Len(selected) :
               \A p \in ParentsInMempool(mempool, selected[i]) :
                 \E k \in 1..(i - 1) : selected[k] = p]_vars

\* C29: a block delivered by a peer while its parent is unknown is kept, and
\* when the parent is then delivered and saved the block is connected above
\* it: it is stored and indexed at the parent's height plus one.
C29_OrphanConnectedWhenParentArrives ==
  [][(/\ last.op = "HandleBlock"
      /\ last.result = "orphan"
      /\ calls' = calls + 1
      /\ reorg'.pc = "idle"
      /\ last'.op = "HandleBlock"
      /\ last'.result = "ok"
      /\ last'.id = BlockCatalog[last.id].header.prevBlockHash)
       => \E h \in DOMAIN heightIndex' :
            /\ heightIndex'[h] = last'.id
            /\ h + 1 \in DOMAIN heightIndex'
            /\ heightIndex'[h + 1] = last.id
            /\ last.id \in DOMAIN blockStore']_vars

\* C28: no inv makes the sync manager ask for a block that is stored or
\* that it asked for and has not received since: each block is asked for at
\* most once until it arrives, and an inv is answered by at most one getdata.
C28_BlocksRequestedOnce ==
  [][last'.op = "HandleInv" /\ last' # last
       => /\ Len(last'.sent) <= 1
          /\ \A h \in BlockHashes : sync'.asked[h] <= 1
          /\ \A k \in 1..Len(last'.sent) : \A i \in 1..Len(last'.sent[k]) :
               last'.sent[k][i].type = "block"
                 => /\ ~HasBlock(last'.sent[k][i].hash)
                    /\ last'.sent[k][i].hash \notin DOMAIN sync.requestedBlocks]_vars

\* a second inv names a block that was asked for and a new one: only the new
\* one is requested
C28_Witness ==
  /\ last.op = "HandleInv"
  /\ last.id = "peer2"
  /\ last.sent = <<(<<InvVect("block", "B1")>>)>>
  /\ sync.requestedBlocks = [h \in {"A1", "B1"} |-> IF h = "A1" THEN "peer1" ELSE "peer2"]

\* the nonces below n whose hash meets the target of the call in progress
MeetingBelow(n) ==
  {k \in 0..(n - 1) : mining.template[k] >= mining.targetZeros}

\* C30: MineBlock tries the nonces 0, 1, 2, ... in this order and returns the
\* block with the smallest nonce whose hash meets the target; when no nonce
\* meets it, the call ends in failure after every nonce was tried once.
C30_SmallestNonceOrFailure ==
  /\ [][mining.pc = "loop" /\ mining'.pc = "loop"
          => mining'.nonce = mining.nonce + 1 /\ mining'.attempts = mining'.nonce]_vars
  /\ [](mining.pc = "found"
          => /\ mining.template[mining.nonce] >= mining.targetZeros
             /\ MeetingBelow(mining.nonce) = {}
             /\ mining.attempts = mining.nonce + 1)
  /\ [](mining.pc = "failed"
          => /\ MeetingBelow(NonceSpace) = {}
             /\ mining.attempts = NonceSpace)
  /\ [](mining.pc = "loop" /\ MeetingBelow(NonceSpace) = {} => <>(mining.pc = "failed"))
  /\ [](mining.pc = "loop" /\ MeetingBelow(NonceSpace) # {} => <>(mining.pc = "found"))

\* the target of one zero byte is met by the last nonce only
C30_Witness ==
  /\ mining.pc = "found"
  /\ mining.targetZeros = 1
  /\ mining.nonce = NonceSpace - 1

\* the commands of a sequence of messages
Sent(p) == {net.wire[p][i] : i \in 1..Len(net.wire[p])}

\* C23: a peer counts as ready (its verack is recorded) and sync with it
\* starts (getblocks is sent to it) only after its version and its verack
\* were received and the node's version and verack were sent to it.
C23_ReadyOnlyAfterVersionAndVerAck ==
  \A p \in net.peers :
    (p \in net.verAckReceived \/ "getblocks" \in Sent(p))
      => /\ p \in net.version
         /\ p \in net.verAckReceived
         /\ {"version", "verack"} \subseteq Sent(p)

\* C24: to an inbound peer the node sends nothing before it has the peer's
\* version, and what it then sends starts with its own version followed by
\* its verack.
C24_InboundRepliesVersionThenVerAck ==
  \A p \in net.peers :
    net.inbound[p]
      => /\ p \notin net.version => net.wire[p] = <<>>
         /\ Len(net.wire[p]) >= 1 => net.wire[p][1] = "version"
         /\ Len(net.wire[p]) >= 2 => net.wire[p][2] = "verack"

\* C25: once a peer's Quit is closed, its read loop and its write loop
\* return wherever they were waiting, and its socket is closed.
C25_QuitStopsBothLoops ==
  \A p \in LifePeers :
    [](p \in net.quitClosed
         => <>(net.rl[p] = "done" /\ net.wl[p] = "done" /\ p \in net.connClosed))

\* C26: when the read loop or the write loop of a peer has returned, the
\* peer's socket is closed in the end, its other loop returns and the peer
\* leaves the node's peer table.
C26_LoopExitReleasesPeer ==
  \A p \in LifePeers :
    [](net.rl[p] = "done" \/ net.wl[p] = "done"
         => <>(/\ p \in net.connClosed
               /\ net.rl[p] = "done" /\ net.wl[p] = "done"
               /\ p \notin net.peers))

\* C27: after Node.Stop is called, every peer's socket is closed, every read
\* loop, write loop and the accept loop return, and Stop returns.
C27_StopReturns ==
  [](net.stop # "idle"
       => <>(/\ net.stop = "returned"
             /\ net.accept = "done"
             /\ \A p \in LifePeers :
                  net.rl[p] # "none"
                    => p \in net.connClosed /\ net.rl[p] = "done" /\ net.wl[p] = "done"))

\* C33: on a chain that is not empty, AcceptBlock given a block that passes
\* every validation rule against the tip (its parent is the tip) succeeds,
\* unless storage fails: the block is applied to the UTXO set, saved at the
\* tip's height + 1 and becomes the tip.
C33_AcceptBlockExtendsTip ==
  [][(/\ calls' = calls + 1
      /\ reorg'.pc = "idle"
      /\ last'.op = "AcceptBlock"
      /\ ~IsEmpty
      /\ ValidateNewBlock(BlockCatalog[last'.id]) = "ok"
      /\ last'.result # "save_failed")
       => /\ last'.result = "ok"
          /\ bestHash' = last'.id
          /\ bestHeight' = bestHeight + 1
          /\ heightIndex'[bestHeight + 1] = last'.id
          /\ utxos' = ApplyBlock(utxos, BlockCatalog[last'.id], bestHeight + 1).utxos]_vars

\* C36: the Quit channel of a peer is never closed a second time, so neither
\* Node.Stop nor the cleanup of handlePeer panics.
C36_QuitClosedOnce == ~net.panicked

\* the entries of the mempool that spend outpoint o
Spenders(o) == {h \in DOMAIN mempool.entries : o \in InputOutPoints(TxCatalog[h])}

\* C34: whatever calls were made on the mempool, no outpoint is spent by two
\* of its entries, and the spent index maps outpoint o to h exactly when h is
\* an entry and o is one of its inputs.
C34_SpentIndexMatchesEntries ==
  /\ \A h1, h2 \in DOMAIN mempool.entries :
       h1 # h2 => InputOutPoints(TxCatalog[h1]) \cap InputOutPoints(TxCatalog[h2]) = {}
  /\ \A o \in DOMAIN mempool.spentOutputs :
       /\ mempool.spentOutputs[o] \in DOMAIN mempool.entries
       /\ o \in InputOutPoints(TxCatalog[mempool.spentOutputs[o]])
  /\ \A h \in DOMAIN mempool.entries :
       \A o \in InputOutPoints(TxCatalog[h]) :
         o \in DOMAIN mempool.spentOutputs /\ mempool.spentOutputs[o] = h

\* the index turned away a transaction that spends an outpoint one of the two
\* entries spends
C34_Witness ==
  /\ last.op = "Add"
  /\ last.result = "output already spent"
  /\ Cardinality(DOMAIN mempool.entries) = 2
  /\ Cardinality(DOMAIN mempool.spentOutputs) = 2

\* C37: when Add fails because the mempool is full and eviction cannot free
\* enough room, the mempool is as it was before the call.
C37_FailedEvictionChangesNothing ==
  [][(AddStep /\ last'.result = "mempool full and cannot evict transactions")
       => mempool' = mempool]_vars

RECURSIVE SumSizes(_)
\* the sum of the sizes of the entries with the given hashes
SumSizes(hs) ==
  IF hs = {} THEN 0
  ELSE LET h == CHOOSE x \in hs : TRUE
       IN mempool.entries[h].size + SumSizes(hs \ {h})

\* C38: whatever calls were made on the mempool, currentSize is the sum of the
\* sizes of its entries and is at most maxSize.
C38_CurrentSizeIsSumWithinMax ==
  /\ mempool.currentSize = SumSizes(DOMAIN mempool.entries)
  /\ mempool.currentSize <= mempool.maxSize

\* an Add filled the mempool: with two entries no third one fits
C38_Witness ==
  /\ last.op = "Add"
  /\ last.result = "ok"
  /\ Cardinality(DOMAIN mempool.entries) = 2
  /\ mempool.currentSize + CalculateTransactionSize(TxCatalog["t6"]) > mempool.maxSize

\* C40: a block that AddBlock or AcceptBlock accepts raises the value of the
\* UTXO set by at most the subsidy of its height, so that the set is never
\* worth more than the subsidies of the accepted heights together.
C40_AcceptedBlockAddsAtMostSubsidy ==
  [][(/\ calls' = calls + 1
      /\ reorg'.pc = "idle"
      /\ last'.op \in {"AddBlock", "AcceptBlock"}
      /\ last'.result = "ok")
       => TotalValue(utxos') <= TotalValue(utxos) + GetBlockReward(bestHeight')]_vars

\* C35: between calls, the stored chain is consistent: bestHash is what the
\* height index holds at bestHeight, and every block indexed at a height
\* 1..bestHeight has the block indexed one height below as its parent.
C35_StoredChainConsistent ==
  (reorg.pc = "idle" /\ ~IsEmpty)
    => /\ HasHeight(bestHeight)
       /\ heightIndex[bestHeight] = bestHash
       /\ \A h \in 1..bestHeight :
            /\ HasHeight(h) /\ HasHeight(h - 1)
            /\ GetBlockByHeight(h).header.prevBlockHash = heightIndex[h - 1]

\* C39: a block recorded in requestedBlocks leaves it in the end, also when
\* the peer it was asked from does not deliver it, so that the block can be
\* asked for again.
C39_RequestedBlockCleared ==
  \A h \in BlockHashes :
    [](h \in DOMAIN sync.requestedBlocks => <>(h \notin DOMAIN sync.requestedBlocks))


(***************************************************************************)
(* getblocks (network.Node.handleGetBlocks)                                *)
(***************************************************************************)
\* the loop bound of handleGetBlocks
MaxInvHashes == 500

\* the first hash of the locator that the store holds, ZeroHash when none
RECURSIVE FindStart(_, _)
FindStart(locator, i) ==
  IF i > Len(locator) THEN ZeroHash
  ELSE IF HasBlock(locator[i]) THEN locator[i]
  ELSE FindStart(locator, i + 1)

\* the loop of handleGetBlocks from i: the hashes at height + i, height + i + 1,
\* ... until a height has no block, hashStop was added or i passes the bound
RECURSIVE SuccessorLoop(_, _, _, _)
SuccessorLoop(height, i, hashStop, invList) ==
  IF i > MaxInvHashes \/ ~HasHeight(height + i) THEN invList
  ELSE LET hash == HashBlockHeader(GetBlockByHeight(height + i).header)
       IN IF hash = hashStop THEN Append(invList, hash)
          ELSE SuccessorLoop(height, i + 1, hashStop, Append(invList, hash))

\* Node.handleGetBlocks: what is sent to the peer, the hashes of the inv
handleGetBlocks(locator, hashStop) ==
  LET startHash == FindStart(locator, 1)
  IN IF startHash = ZeroHash THEN [result |-> "no_common_block", sent |-> <<>>]
     ELSE IF ~KnowsHeight(startHash) THEN [result |-> "error", sent |-> <<>>]
     ELSE LET invList == SuccessorLoop(GetBlockHeight(startHash), 1, hashStop, <<>>)
          IN [result |-> "ok", sent |-> IF Len(invList) > 0 THEN <<invList>> ELSE <<>>]

MaxLocator == 2

\* the blocks peers deliver and name in a locator, and the stop hashes
LocatorBlocks == {"G", "A1", "A2", "B1"}

StopHashes == {ZeroHash, "A1", "A2"}

\* a getblocks message of peer p is handled
HandleGetBlocks(p, locator, hashStop) ==
  LET r == handleGetBlocks(locator, hashStop)
  IN /\ reorg.pc = "idle"
     /\ last' = [op |-> "handleGetBlocks", id |-> p, result |-> r.result,
                 locator |-> locator, hashStop |-> hashStop, sent |-> r.sent]
     /\ UNCHANGED <<storageVars, utxos, reorg, calls, mempoolVars, sync, net, mining>>

NextGetBlocks ==
  \/ \E h \in LocatorBlocks, saveOk \in BOOLEAN : HandleBlock(BlockCatalog[h], saveOk)
  \/ \E p \in Peers, locator \in SeqsUpTo(LocatorBlocks, MaxLocator),
        hashStop \in StopHashes : HandleGetBlocks(p, locator, hashStop)

\* peers deliver blocks and ask for the blocks after a locator
SpecGetBlocks == Init /\ [][NextGetBlocks]_vars

\* the block is on the active chain: the height index names it at a height up
\* to the tip's
OnActiveChain(hash) ==
  ~IsEmpty /\ \E h \in 0..bestHeight : HasHeight(h) /\ heightIndex[h] = hash

ActiveHeight(hash) == CHOOSE h \in 0..bestHeight : HasHeight(h) /\ heightIndex[h] = hash

\* the first hash of the locator that is on the active chain, ZeroHash when none
RECURSIVE MostRecentCommon(_, _)
MostRecentCommon(locator, i) ==
  IF i > Len(locator) THEN ZeroHash
  ELSE IF OnActiveChain(locator[i]) THEN locator[i]
  ELSE MostRecentCommon(locator, i + 1)

\* the active chain's hashes after height, in height order, up to the tip, to
\* hashStop and to MaxInvHashes hashes
RECURSIVE ActiveSuccessors(_, _, _, _)
ActiveSuccessors(height, i, hashStop, list) ==
  IF i > MaxInvHashes \/ height + i > bestHeight \/ ~HasHeight(height + i) THEN list
  ELSE IF heightIndex[height + i] = hashStop THEN Append(list, hashStop)
  ELSE ActiveSuccessors(height, i + 1, hashStop,
                        Append(list, heightIndex[height + i]))

\* C32: the reply to a getblocks is one inv that lists, in height order, the
\* active chain's blocks after the first locator hash on the active chain, up
\* to 500 hashes and up to hash_stop; nothing is sent when there is none
C32_GetBlocksListsActiveSuccessors ==
  last.op = "handleGetBlocks" =>
    LET start == MostRecentCommon(last.locator, 1)
        list == IF start = ZeroHash THEN <<>>
                ELSE ActiveSuccessors(ActiveHeight(start), 1, last.hashStop, <<>>)
    IN last.sent = IF Len(list) > 0 THEN <<list>> ELSE <<>>

\* the attempts after which a shutdown is to be noticed: the 100,000 of the
\* progress report, scaled down with the nonce
PreemptAttempts == 2

\* C31: once the node's context is cancelled, a running MineBlock makes no
\* more than the pre-emption interval of further hash attempts, whether or
\* not a nonce meets the target.
C31_StopsWithinAttemptsOfSignal ==
  mining.pc \in {"loop", "found", "failed"} => mining.sinceCancel <= PreemptAttempts

====
